---- MODULE Spec2Model ----
(***************************************************************************)
(* Model of the hypergeometric tail-probability engine of                  *)
(* src/decimal_hypergeom.py: the exact PMF evaluator (range-product        *)
(* fraction, simplifier, interleaved multiply/divide), the incremental     *)
(* tail summation, the exact CDF / SF / min(CDF,SF) evaluators, the        *)
(* algorithm selector, the four facade operations, and the context         *)
(* effect of the normal approximation's evaluators and approx_pi called    *)
(* directly.                                                               *)
(*                                                                         *)
(* Numbers.  The arithmetic that runs at the computational precision       *)
(* (1024 digits: the accumulator of the ratio evaluator and the running    *)
(* term and sum of the summation loops) is modelled by the exact rational  *)
(* it approximates: a pair <<a, b>> with b > 0 and gcd(|a|, b) = 1.  Every *)
(* value that has passed a statement executed at the reporting precision   *)
(* (16 digits) is a Decimal kept digit by digit, rounded as the context    *)
(* rounds it (ROUND_HALF_EVEN): the value a function returns, the halving  *)
(* and the addition or subtraction of the degenerate branch, and the       *)
(* subtraction 1 - x of the exact evaluators.  NoVal stands for a numeric  *)
(* value the model does not compute (results of the log-Gamma, normal and  *)
(* library evaluators).  The selector's test of the normal approximation   *)
(* is computed in Python floats, modelled as IEEE 754 binary64 numbers     *)
(* with the operations rounded to nearest, ties to even.                   *)
(***************************************************************************)
EXTENDS Integers, Sequences, FiniteSets, TLC

(***************************************************************************)
(* Bounds of the model.                                                    *)
(***************************************************************************)
MaxM == 6
\* queries that violate the invariant have k, M, n, N in 0..MaxBad
MaxBad == 3

(***************************************************************************)
(* Program constants.                                                      *)
(***************************************************************************)
INT_MAX_NUM_ITERS_FOR_EXACT_HYPERGEOM == 1000000
INT_MAX_NUM_ITERS_FOR_LANCZOS_APPROX_HYPERGEOM == 500000
INT_MAX_NUM_ITERS_FOR_SPOUGE_APPROX_HYPERGEOM == 500000
INT_MIN_SAMPLE_SZ_FOR_APPROX_NORMAL == 1000
INT_DECIMAL_COMPUTATIONAL_PRECISION == 1024
INT_DECIMAL_REPORTING_PRECISION == 16

(***************************************************************************)
(* Integer helpers (Python's built-in max, min, abs).                      *)
(***************************************************************************)
max(a, b) == IF a >= b THEN a ELSE b
min(a, b) == IF a <= b THEN a ELSE b
Abs(a) == IF a < 0 THEN 0 - a ELSE a

RECURSIVE GCD(_, _)
GCD(a, b) == IF b = 0 THEN a ELSE GCD(b, a % b)

(***************************************************************************)
(* Exact rationals standing for Decimal values.                            *)
(***************************************************************************)
\* the pair a/b with the common factor g taken out
Reduce(a, b, g) == <<a \div g, b \div g>>

Rat(a, b) == Reduce(a, b, GCD(Abs(a), b))

Zero == <<0, 1>>
One == <<1, 1>>
Half == <<1, 2>>

RMulInt(x, i) == Rat(x[1] * i, x[2])
RDivInt(x, i) == IF i < 0 THEN Rat(0 - x[1], x[2] * (0 - i)) ELSE Rat(x[1], x[2] * i)
RAdd(x, y) == Rat(x[1] * y[2] + y[1] * x[2], x[2] * y[2])
RSub(x, y) == Rat(x[1] * y[2] - y[1] * x[2], x[2] * y[2])
RMul(x, y) == Rat(x[1] * y[1], x[2] * y[2])
RLt(x, y) == x[1] * y[2] < y[1] * x[2]
RLe(x, y) == x[1] * y[2] <= y[1] * x[2]
RMin(x, y) == IF RLe(x, y) THEN x ELSE y
RMax(x, y) == IF RLe(x, y) THEN y ELSE x

(***************************************************************************)
(* Decimal values.  A Decimal is kept as its sign, its coefficient digits  *)
(* (most significant first) and its exponent: the value is                 *)
(* (-1) ** neg * digits * 10 ** exp; nan marks Decimal('nan').  Python     *)
(* compares Decimals by value, so the results of the arithmetic below are  *)
(* kept in one form: no leading zero, no trailing zero, and <<0>> with     *)
(* exponent 0 and no sign for zero.                                        *)
(***************************************************************************)
DecNaN == [nan |-> TRUE, neg |-> FALSE, digits |-> <<0>>, exp |-> 0]
Dec(digits, exp) == [nan |-> FALSE, neg |-> FALSE, digits |-> digits, exp |-> exp]

\* Decimal(0), Decimal(1), Decimal(.5)
DecZero == Dec(<<0>>, 0)
DecOne == Dec(<<1>>, 0)
DecHalf == Dec(<<5>>, -1)

AllZero(ds) == \A i \in 1..Len(ds) : ds[i] = 0

Zeros(n) == [i \in 1..n |-> 0]

\* ds followed by zeros, n digits together
Pad(ds, n) == ds \o Zeros(n - Len(ds))

\* ROUND_HALF_EVEN: the digits after the n-th make the n-th go up
rounds_up(ds, n) ==
    \/ ds[n + 1] > 5
    \/ /\ ds[n + 1] = 5
       /\ \/ \E i \in (n + 2)..Len(ds) : ds[i] # 0
          \/ ds[n] % 2 = 1

\* ds plus one unit in its last place; carry tells that every digit was 9
RECURSIVE increment_from(_, _)
increment_from(ds, i) ==
    IF i = 0 THEN [digits |-> ds, carry |-> TRUE]
    ELSE IF ds[i] < 9 THEN [digits |-> [ds EXCEPT ![i] = ds[i] + 1], carry |-> FALSE]
    ELSE increment_from([ds EXCEPT ![i] = 0], i - 1)

\* the coefficient after the carry out of its first digit: 1 then zeros
after_increment(inc, exp) ==
    IF inc.carry
    THEN [digits |-> [inc.digits EXCEPT ![1] = 1], exp |-> exp + 1]
    ELSE [digits |-> inc.digits, exp |-> exp]

\* the digits ds * 10 ** exp rounded to n significant digits
round_digits(ds, exp, n) ==
    IF Len(ds) <= n THEN [digits |-> ds, exp |-> exp]
    ELSE IF rounds_up(ds, n)
    THEN after_increment(increment_from(SubSeq(ds, 1, n), n), exp + (Len(ds) - n))
    ELSE [digits |-> SubSeq(ds, 1, n), exp |-> exp + (Len(ds) - n)]

\* "+number" in a context of precision int_precision
decimal_plus(number, int_precision) ==
    IF number.nan THEN number
    ELSE [nan |-> FALSE, neg |-> number.neg]
             @@ round_digits(number.digits, number.exp, int_precision)

RECURSIVE strip_leading_zeros(_)
strip_leading_zeros(ds) ==
    IF Len(ds) > 1 /\ ds[1] = 0 THEN strip_leading_zeros(Tail(ds)) ELSE ds

RECURSIVE strip_trailing_zeros(_, _)
strip_trailing_zeros(ds, exp) ==
    IF Len(ds) > 1 /\ ds[Len(ds)] = 0
    THEN strip_trailing_zeros(SubSeq(ds, 1, Len(ds) - 1), exp + 1)
    ELSE [digits |-> ds, exp |-> exp]

\* the Decimal of sign neg and rounded coefficient r, in the one form kept
decimal_normal(neg, r) ==
    IF AllZero(r.digits) THEN DecZero
    ELSE [nan |-> FALSE, neg |-> neg] @@ strip_trailing_zeros(r.digits, r.exp)

\* the result of an operation whose exact value is (-1) ** neg * ds * 10 ** exp,
\* in a context of precision int_precision
decimal_result(neg, ds, exp, int_precision) ==
    IF AllZero(ds) THEN DecZero
    ELSE decimal_normal(neg, round_digits(strip_leading_zeros(ds), exp, int_precision))

\* the digits of the natural number i, none for 0
RECURSIVE int_digits(_)
int_digits(i) == IF i = 0 THEN <<>> ELSE Append(int_digits(i \div 10), i % 10)

\* long division of rem / b after the digits ds: digits are taken until ds
\* holds more than n significant ones; a last digit 1 then stands for the
\* rest of a quotient that does not end there
RECURSIVE divide_digits(_, _, _, _, _)
divide_digits(ds, exp, rem, b, n) ==
    IF rem = 0 THEN [digits |-> ds, exp |-> exp]
    ELSE IF Len(ds) > n THEN [digits |-> Append(ds, 1), exp |-> exp - 1]
    ELSE divide_digits(IF ds = <<>> /\ (rem * 10) \div b = 0 THEN ds
                       ELSE Append(ds, (rem * 10) \div b),
                       exp - 1, (rem * 10) % b, b, n)

\* the digits of a / b for a > 0, enough of them to round to n digits
quotient_digits(a, b, n) == divide_digits(int_digits(a \div b), 0, a % b, b, n)

\* the Decimal that "+value" gives in a context of precision int_precision
\* for a value computed at the computational precision (value is the exact
\* rational that stands for it)
decimal_of_value(value, int_precision) ==
    IF value[1] = 0 THEN DecZero
    ELSE decimal_normal(value[1] < 0,
             round_digits(quotient_digits(Abs(value[1]), value[2], int_precision).digits,
                          quotient_digits(Abs(value[1]), value[2], int_precision).exp,
                          int_precision))

\* the coefficient of d at the exponent exp <= d.exp, n digits
digits_at(d, exp, n) == Zeros(n - Len(d.digits) - (d.exp - exp)) \o d.digits \o Zeros(d.exp - exp)

\* x < y for two digit strings of one length
RECURSIVE digits_less(_, _, _)
digits_less(x, y, i) ==
    IF i > Len(x) THEN FALSE
    ELSE IF x[i] # y[i] THEN x[i] < y[i]
    ELSE digits_less(x, y, i + 1)

\* x - y for two digit strings of one length, x >= y
RECURSIVE digits_sub(_, _, _, _)
digits_sub(x, y, i, borrow) ==
    IF i = 0 THEN x
    ELSE digits_sub([x EXCEPT ![i] = (x[i] - y[i] - borrow + 10) % 10], y, i - 1,
                    IF x[i] - y[i] - borrow < 0 THEN 1 ELSE 0)

\* x + y for two digit strings of one length
RECURSIVE digits_add(_, _, _, _)
digits_add(x, y, i, carry) ==
    IF i = 0 THEN IF carry = 1 THEN <<1>> \o x ELSE x
    ELSE digits_add([x EXCEPT ![i] = (x[i] + y[i] + carry) % 10], y, i - 1,
                    (x[i] + y[i] + carry) \div 10)

\* the sum of the magnitudes of x and y with the sign neg
magnitude_add(neg, x, y, exp, n, int_precision) ==
    decimal_result(neg, digits_add(digits_at(x, exp, n), digits_at(y, exp, n), n, 0),
                   exp, int_precision)

\* the difference of the magnitudes of x and y; neg is the sign of x
magnitude_sub(neg, x, y, exp, n, int_precision) ==
    IF digits_less(digits_at(x, exp, n), digits_at(y, exp, n), 1)
    THEN decimal_result(~neg, digits_sub(digits_at(y, exp, n), digits_at(x, exp, n), n, 0),
                        exp, int_precision)
    ELSE decimal_result(neg, digits_sub(digits_at(x, exp, n), digits_at(y, exp, n), n, 0),
                        exp, int_precision)

\* the number of digits two coefficients take at the smaller exponent
aligned_len(x, y) ==
    max(Len(x.digits) + x.exp, Len(y.digits) + y.exp) - min(x.exp, y.exp)

\* x + y in a context of precision int_precision
decimal_add(x, y, int_precision) ==
    IF x.neg = y.neg
    THEN magnitude_add(x.neg, x, y, min(x.exp, y.exp), aligned_len(x, y), int_precision)
    ELSE magnitude_sub(x.neg, x, y, min(x.exp, y.exp), aligned_len(x, y), int_precision)

\* x - y in a context of precision int_precision
decimal_sub(x, y, int_precision) ==
    decimal_add(x, [y EXCEPT !.neg = ~y.neg /\ ~AllZero(y.digits)], int_precision)

\* the digits of ds / 2 for an even ds (a leading 0 may come out)
RECURSIVE digits_halved(_, _, _, _)
digits_halved(ds, i, rem, out) ==
    IF i > Len(ds) THEN out
    ELSE digits_halved(ds, i + 1, (rem * 10 + ds[i]) % 2,
                       Append(out, (rem * 10 + ds[i]) \div 2))

\* x / 2 in a context of precision int_precision
decimal_halved(x, int_precision) ==
    decimal_result(x.neg, digits_halved(Append(x.digits, 0), 1, 0, <<>>), x.exp - 1,
                   int_precision)

\* the comparison x < y (exact, whatever the context)
decimal_lt(x, y) ==
    IF x.neg # y.neg THEN x.neg
    ELSE IF x.neg
    THEN digits_less(digits_at(y, min(x.exp, y.exp), aligned_len(x, y)),
                     digits_at(x, min(x.exp, y.exp), aligned_len(x, y)), 1)
    ELSE digits_less(digits_at(x, min(x.exp, y.exp), aligned_len(x, y)),
                     digits_at(y, min(x.exp, y.exp), aligned_len(x, y)), 1)

decimal_le(x, y) == ~decimal_lt(y, x)

\* x rounded in a context of precision int_precision, in the one form kept
decimal_rounded(x, int_precision) ==
    decimal_result(x.neg, x.digits, x.exp, int_precision)

\* x.min(y) and x.max(y) in a context of precision int_precision
decimal_min(x, y, int_precision) ==
    decimal_rounded(IF decimal_lt(y, x) THEN y ELSE x, int_precision)
decimal_max(x, y, int_precision) ==
    decimal_rounded(IF decimal_lt(x, y) THEN y ELSE x, int_precision)

\* a numeric value that is not computed here
NoVal == [nan |-> FALSE, neg |-> FALSE, digits |-> <<>>, exp |-> 0]

(***************************************************************************)
(* The query invariant of the data model: 0 < M, 0 <= N <= M,              *)
(* 0 <= n <= M, 0 <= k <= N, 0 <= n-k <= M-N.                              *)
(***************************************************************************)
ValidQuery(k, M, n, N) ==
    /\ 0 < M
    /\ 0 <= N /\ N <= M
    /\ 0 <= n /\ n <= M
    /\ 0 <= k /\ k <= N
    /\ 0 <= n - k /\ n - k <= M - N

Queries ==
    {q \in (0..MaxM) \X (1..MaxM) \X (0..MaxM) \X (0..MaxM) :
        ValidQuery(q[1], q[2], q[3], q[4])}

\* quadruples of non-negative integers that violate the invariant
InvalidQueries ==
    {q \in (0..MaxBad) \X (0..MaxBad) \X (0..MaxBad) \X (0..MaxBad) :
        ~ValidQuery(q[1], q[2], q[3], q[4])}

AllQueries == Queries \cup InvalidQueries

(***************************************************************************)
(* _simplify_fraction_for_hypergeom_pmf.  A range is a pair <<lo, hi>>;    *)
(* a range list is a sequence of ranges.                                   *)
(***************************************************************************)
\* the candidates of the search loop: ranges that start at 1 (their upper
\* bound exceeds the initial -1)
unit_ranges(lst) == {i \in 1..Len(lst) : lst[i][1] = 1 /\ lst[i][2] > -1}

\* the widest of the candidates at the indexes in cand, -1 if there is none
widest_candidate(lst, cand) ==
    IF cand = {} THEN -1
    ELSE CHOOSE w \in {lst[i][2] : i \in cand} : \A i \in cand : lst[i][2] <= w

\* int_widest_*_range after the search loop
widest_range(lst) == widest_candidate(lst, unit_ranges(lst))

\* the first index in cand of a range that ends at widest; without a
\* candidate, the initial -1 indexes the last element of a Python list
widest_candidate_ind(lst, cand, widest) ==
    IF cand = {} THEN Len(lst)
    ELSE CHOOSE i \in cand :
            /\ lst[i][2] = widest
            /\ \A j \in cand : lst[j][2] = widest => i <= j

\* int_widest_*_range_ind after the search loop (1-based)
widest_range_ind(lst) ==
    widest_candidate_ind(lst, unit_ranges(lst), widest_range(lst))

\* mutant: the wider range keeps the last integer of the common prefix
simplify_update_keeps_common_element(f, NU, NI, DU, DI) ==
        IF NU > DU
        THEN [num |-> [f.num EXCEPT ![NI] = <<DU, @[2]>>],
              den |-> [f.den EXCEPT ![DI] = <<@[1], 1>>]]
        ELSE IF NU < DU
        THEN [num |-> [f.num EXCEPT ![NI] = <<@[1], 1>>],
              den |-> [f.den EXCEPT ![DI] = <<NU, @[2]>>]]
        ELSE [num |-> [f.num EXCEPT ![NI] = <<@[1], 1>>],
              den |-> [f.den EXCEPT ![DI] = <<@[1], 1>>]]

\* the update that ends a stage: the two widest ranges cancel each other
simplify_update(f, NU, NI, DU, DI) ==
        IF NU > DU
        THEN [num |-> [f.num EXCEPT ![NI] = <<DU + 1, @[2]>>],
              den |-> [f.den EXCEPT ![DI] = <<@[1], 1>>]]
        ELSE IF NU < DU
        THEN [num |-> [f.num EXCEPT ![NI] = <<@[1], 1>>],
              den |-> [f.den EXCEPT ![DI] = <<NU + 1, @[2]>>]]
        ELSE [num |-> [f.num EXCEPT ![NI] = <<@[1], 1>>],
              den |-> [f.den EXCEPT ![DI] = <<@[1], 1>>]]

\* one cancellation stage: the two searches, then the update
simplify_stage(f) ==
    simplify_update(f, widest_range(f.num), widest_range_ind(f.num),
                       widest_range(f.den), widest_range_ind(f.den))

RECURSIVE simplify_stages(_, _)
simplify_stages(f, stages) ==
    IF stages = 0 THEN f ELSE simplify_stages(simplify_stage(f), stages - 1)

simplify_fraction_for_hypergeom_pmf(lst_lst_num, lst_lst_den) ==
    simplify_stages([num |-> lst_lst_num, den |-> lst_lst_den],
                    min(Len(lst_lst_num), Len(lst_lst_den)))

(***************************************************************************)
(* _compute_fraction_for_hypergeom_pmf.  The cursor state is               *)
(* [ni, ne, di, de, pmf, iters]: range index and element of the numerator  *)
(* and of the denominator (indexes 1-based, Len+1 = exhausted), the        *)
(* accumulator, and the number of loop iterations executed.  The loops run *)
(* at the computational precision; the statements after them set the       *)
(* precision of the current context to the reporting precision and round   *)
(* the accumulator with "+pmf".                                            *)
(***************************************************************************)
\* mutant: on entering the next range its first element is not divided by
den_step_skips_range_head(s, den) ==
    LET e == s.de + 1
    IN  IF e <= den[s.di][2]
        THEN [s EXCEPT !.de = e, !.pmf = RDivInt(s.pmf, e), !.iters = @ + 1]
        ELSE IF s.di + 1 <= Len(den)
        THEN [s EXCEPT !.di = @ + 1, !.de = den[s.di + 1][1], !.iters = @ + 1]
        ELSE [s EXCEPT !.di = @ + 1, !.de = 1, !.iters = @ + 1]

\* body of the "consume the next denominator element" branch
den_step(s, den) ==
    LET e == s.de + 1
    IN  IF e <= den[s.di][2]
        THEN [s EXCEPT !.de = e, !.pmf = RDivInt(s.pmf, e), !.iters = @ + 1]
        ELSE IF s.di + 1 <= Len(den)
        THEN [s EXCEPT !.di = @ + 1, !.de = den[s.di + 1][1],
                       !.pmf = RDivInt(s.pmf, den[s.di + 1][1]),
                       !.iters = @ + 1]
        ELSE [s EXCEPT !.di = @ + 1, !.de = 1, !.iters = @ + 1]

\* mutant: the last integer of a range is not multiplied by
num_step_skips_range_end(s, num) ==
    LET e == s.ne + 1
    IN  IF e < num[s.ni][2]
        THEN [s EXCEPT !.ne = e, !.pmf = RMulInt(s.pmf, e), !.iters = @ + 1]
        ELSE IF s.ni + 1 <= Len(num)
        THEN [s EXCEPT !.ni = @ + 1, !.ne = num[s.ni + 1][1],
                       !.pmf = RMulInt(s.pmf, num[s.ni + 1][1]),
                       !.iters = @ + 1]
        ELSE [s EXCEPT !.ni = @ + 1, !.ne = 1, !.iters = @ + 1]

\* body of the "consume the next numerator element" branch
num_step(s, num) ==
    LET e == s.ne + 1
    IN  IF e <= num[s.ni][2]
        THEN [s EXCEPT !.ne = e, !.pmf = RMulInt(s.pmf, e), !.iters = @ + 1]
        ELSE IF s.ni + 1 <= Len(num)
        THEN [s EXCEPT !.ni = @ + 1, !.ne = num[s.ni + 1][1],
                       !.pmf = RMulInt(s.pmf, num[s.ni + 1][1]),
                       !.iters = @ + 1]
        ELSE [s EXCEPT !.ni = @ + 1, !.ne = 1, !.iters = @ + 1]

\* the interleaved loop: divide while the accumulator exceeds 1, else multiply
RECURSIVE interleave(_, _, _)
interleave(s, num, den) ==
    IF s.ni <= Len(num) /\ s.di <= Len(den)
    THEN interleave(IF RLt(One, s.pmf) THEN den_step(s, den) ELSE num_step(s, num),
                    num, den)
    ELSE s

RECURSIVE drain_num(_, _)
drain_num(s, num) ==
    IF s.ni <= Len(num) THEN drain_num(num_step(s, num), num) ELSE s

RECURSIVE drain_den(_, _)
drain_den(s, den) ==
    IF s.di <= Len(den) THEN drain_den(den_step(s, den), den) ELSE s

\* the cursors and the accumulator before the interleaved loop
compute_fraction_init(num, den) ==
    [ni |-> 1, ne |-> num[1][1], di |-> 1, de |-> den[1][1],
     pmf |-> RDivInt(RMulInt(One, num[1][1]), den[1][1]),
     iters |-> 0]

\* "if numerator is left over": multiply by what remains of it
drain_num_if_left(s, num, den) ==
    IF s.ni <= Len(num) /\ s.di = Len(den) + 1 THEN drain_num(s, num) ELSE s

\* "if denominator is left over": divide by what remains of it
drain_den_if_left(s, num, den) ==
    IF s.ni = Len(num) + 1 /\ s.di <= Len(den) THEN drain_den(s, den) ELSE s

compute_fraction_run(num, den) ==
    drain_den_if_left(
        drain_num_if_left(interleave(compute_fraction_init(num, den), num, den),
                          num, den),
        num, den)

\* the statements after the loops: "pmf = +pmf" in a context of the
\* reporting precision
compute_fraction_return(s, int_decimal_reporting_precision) ==
    [pmf |-> decimal_of_value(s.pmf, int_decimal_reporting_precision),
     iters |-> s.iters]

\* called with the pair f of range lists the simplifier returned; the record
\* returned holds the value (pmf) and the iterations executed (iters)
compute_fraction_for_hypergeom_pmf(f, int_decimal_reporting_precision) ==
    compute_fraction_return(compute_fraction_run(f.num, f.den),
                            int_decimal_reporting_precision)

(***************************************************************************)
(* The range lists of PMF(i) built by exact_hypergeom_pmf and by the       *)
(* boundary-term code of _sum_hypergeom_pmfs.                              *)
(***************************************************************************)
pmf_lst_lst_num(M, n, N) ==
    << <<1, max(1, n)>>, <<1, max(1, N)>>, <<1, max(1, M - N)>>,
       <<1, max(1, M - n)>> >>

\* mutant: the range [1, i] is missing from the denominator
pmf_lst_lst_den_missing_range(i, M, n, N) ==
    << <<1, max(1, n - i)>>, <<1, max(1, N - i)>>, <<1, max(1, M)>>,
       <<1, max(1, M - N - n + i)>> >>

pmf_lst_lst_den(i, M, n, N) ==
    << <<1, max(1, n - i)>>, <<1, max(1, N - i)>>, <<1, max(1, M)>>,
       <<1, max(1, M - N - n + i)>>, <<1, max(1, i)>> >>

\* the value of a run of the ratio evaluator and its iterations
pmf_result(s) == [val |-> s.pmf, iters |-> s.iters]

exact_hypergeom_pmf_run(k, M, n, N) ==
    pmf_result(compute_fraction_for_hypergeom_pmf(
        simplify_fraction_for_hypergeom_pmf(
            pmf_lst_lst_num(M, n, N), pmf_lst_lst_den(k, M, n, N)),
        INT_DECIMAL_REPORTING_PRECISION))

exact_hypergeom_pmf(k, M, n, N) == exact_hypergeom_pmf_run(k, M, n, N).val

(***************************************************************************)
(* Reference values: binomial coefficients and the textbook PMF.           *)
(***************************************************************************)
RECURSIVE Binomial(_, _)
Binomial(a, b) ==
    IF b < 0 \/ b > a THEN 0
    ELSE IF b = 0 THEN 1
    ELSE (Binomial(a - 1, b - 1) * a) \div b

RefPmf(i, M, n, N) == Rat(Binomial(N, i) * Binomial(M - N, n - i), Binomial(M, n))

RECURSIVE RefSum(_, _, _, _, _)
RefSum(lo, hi, M, n, N) ==
    IF lo > hi THEN Zero ELSE RAdd(RefPmf(lo, M, n, N), RefSum(lo + 1, hi, M, n, N))

(***************************************************************************)
(* _sum_hypergeom_pmfs with bool_numerical_approximation = False.          *)
(* The result record holds the returned value (val), the number of         *)
(* iterations of the summation loop executed (loop_iters) and the branch   *)
(* taken (branch).                                                         *)
(***************************************************************************)
\* mutant: the test N == k is missing
sum_is_degenerate_without_N_eq_k(k, M, n, N, bool_use_half_of_boundary_pmf) ==
    \/ M = n
    \/ M = N
    \/ ((M - N) = (n - k) /\ bool_use_half_of_boundary_pmf)
    \/ n = 0
    \/ N = 0

\* the degenerate test that opens the function
sum_is_degenerate(k, M, n, N, bool_use_half_of_boundary_pmf) ==
    \/ M = n
    \/ M = N
    \/ N = k
    \/ ((M - N) = (n - k) /\ bool_use_half_of_boundary_pmf)
    \/ n = 0
    \/ N = 0

\* mutant: at the lowest index of the support the sf is half the PMF, not
\* one minus half the PMF
sum_degenerate_value_low_sf(half_pmf, k, M, n, N, bool_use_half_of_boundary_pmf, bool_true_cdf_false_sf) ==
        IF (M - N) = (n - k) /\ bool_use_half_of_boundary_pmf
        THEN decimal_add(DecZero, half_pmf, INT_DECIMAL_REPORTING_PRECISION)
        ELSE IF bool_true_cdf_false_sf
             THEN IF bool_use_half_of_boundary_pmf
                  THEN decimal_sub(DecOne, half_pmf, INT_DECIMAL_REPORTING_PRECISION)
                  ELSE DecOne
             ELSE IF bool_use_half_of_boundary_pmf
                  THEN decimal_add(DecZero, half_pmf, INT_DECIMAL_REPORTING_PRECISION)
                  ELSE DecZero

\* the value the degenerate branch leaves in cdf or sf, half_pmf being
\* exact_hypergeom_pmf(...) / 2; the context in which "+=" and "-=" run has
\* the reporting precision, set by the call of exact_hypergeom_pmf
sum_degenerate_value(half_pmf, k, M, n, N, bool_use_half_of_boundary_pmf, bool_true_cdf_false_sf) ==
        IF (M - N) = (n - k) /\ bool_use_half_of_boundary_pmf
        THEN IF bool_true_cdf_false_sf
             THEN decimal_add(DecZero, half_pmf, INT_DECIMAL_REPORTING_PRECISION)
             ELSE decimal_sub(DecOne, half_pmf, INT_DECIMAL_REPORTING_PRECISION)
        ELSE IF bool_true_cdf_false_sf
             THEN IF bool_use_half_of_boundary_pmf
                  THEN decimal_sub(DecOne, half_pmf, INT_DECIMAL_REPORTING_PRECISION)
                  ELSE DecOne
             ELSE IF bool_use_half_of_boundary_pmf
                  THEN decimal_add(DecZero, half_pmf, INT_DECIMAL_REPORTING_PRECISION)
                  ELSE DecZero

\* "exact_hypergeom_pmf(...) / 2": the PMF comes back rounded to the
\* reporting precision and is halved in a context of that precision
half_of_exact_pmf(k, M, n, N) ==
    decimal_halved(exact_hypergeom_pmf(k, M, n, N), INT_DECIMAL_REPORTING_PRECISION)

\* mutant: the boundary PMF is not halved
sum_degenerate_without_halving(k, M, n, N, bool_use_half_of_boundary_pmf, bool_true_cdf_false_sf) ==
    sum_degenerate_value(exact_hypergeom_pmf(k, M, n, N), k, M, n, N,
                         bool_use_half_of_boundary_pmf, bool_true_cdf_false_sf)

\* the degenerate branch: no summation
sum_degenerate(k, M, n, N, bool_use_half_of_boundary_pmf, bool_true_cdf_false_sf) ==
    sum_degenerate_value(half_of_exact_pmf(k, M, n, N), k, M, n, N,
                         bool_use_half_of_boundary_pmf, bool_true_cdf_false_sf)

\* "pmf /= two" where the term is the boundary term of a half-boundary sum
halve_if(pmf, bool_boundary) == IF bool_boundary THEN RDivInt(pmf, 2) ELSE pmf

\* mutant: the factors of the numerator are taken at index i, not i-1
cdf_term_update_off_by_one(pmf, i, M, n, N) ==
    RDivInt(RMulInt(pmf, (n - i) * (N - i)), (M - N - n + i) * i)

\* one update of the running term in the CDF walk, index i-1 -> i
cdf_term_update(pmf, i, M, n, N) ==
    RDivInt(RMulInt(pmf, (n - i + 1) * (N - i + 1)), (M - N - n + i) * i)

\* one update of the running term in the SF walk, index i+1 -> i
sf_term_update(pmf, i, M, n, N) ==
    RDivInt(RMulInt(pmf, (M - N - n + i + 1) * (i + 1)), (n - i) * (N - i))

\* the loop "for i in range(i_first+1, k+1, +1)"
RECURSIVE cdf_loop(_, _, _, _, _, _, _, _, _)
cdf_loop(i, k, M, n, N, half_b, pmf, cdf, iters) ==
    IF i > k THEN [val |-> cdf, loop_iters |-> iters]
    ELSE LET p2 == halve_if(cdf_term_update(pmf, i, M, n, N), half_b /\ i = k)
         IN  cdf_loop(i + 1, k, M, n, N, half_b, p2, RAdd(cdf, p2), iters + 1)

\* the loop "for i in range(i_last-1, k-1, -1)"
RECURSIVE sf_loop(_, _, _, _, _, _, _, _, _)
sf_loop(i, k, M, n, N, half_b, pmf, sf, iters) ==
    IF i < k THEN [val |-> sf, loop_iters |-> iters]
    ELSE IF i > k \/ half_b
    THEN LET p2 == halve_if(sf_term_update(pmf, i, M, n, N), half_b /\ i = k)
         IN  sf_loop(i - 1, k, M, n, N, half_b, p2, RAdd(sf, p2), iters + 1)
    ELSE sf_loop(i - 1, k, M, n, N, half_b, pmf, sf, iters + 1)

\* The first term of a walk.  _compute_fraction_for_hypergeom_pmf is called
\* with the computational precision as its reporting precision, so its
\* "+pmf" leaves the accumulator of the loops as it is.
walk_first_term(i, M, n, N) ==
    compute_fraction_run(
        simplify_fraction_for_hypergeom_pmf(
            pmf_lst_lst_num(M, n, N), pmf_lst_lst_den(i, M, n, N)).num,
        simplify_fraction_for_hypergeom_pmf(
            pmf_lst_lst_num(M, n, N), pmf_lst_lst_den(i, M, n, N)).den).pmf

\* the CDF walk from its first term pmf = PMF(i_first), halved if it is the
\* boundary term
cdf_walk_from(i_first, pmf, k, M, n, N, half_b) ==
    cdf_loop(i_first + 1, k, M, n, N, half_b, pmf,
             IF i_first <= k THEN pmf ELSE Zero, 0)

\* the "elif bool_true_cdf_false_sf_none_min" branch
sum_cdf_walk(k, M, n, N, half_b) ==
    LET i_first == max(0, n + N - M)
    IN  cdf_walk_from(i_first,
                      halve_if(walk_first_term(i_first, M, n, N),
                               half_b /\ i_first + 1 >= k + 1),
                      k, M, n, N, half_b)

\* the SF walk from its first term pmf = PMF(i_last), halved if it is the
\* boundary term
sf_walk_from(i_last, pmf, k, M, n, N, half_b) ==
    sf_loop(i_last - 1, k, M, n, N, half_b, pmf,
            IF i_last > k THEN pmf
            ELSE IF half_b /\ i_last = k THEN pmf
            ELSE Zero, 0)

\* the final "else" branch
sum_sf_walk(k, M, n, N, half_b) ==
    IF ~half_b /\ k = n
    THEN [val |-> Zero, loop_iters |-> 0]
    ELSE LET i_last == min(n, N)
         IN  sf_walk_from(i_last,
                          halve_if(walk_first_term(i_last, M, n, N),
                                   half_b /\ i_last - 1 <= k - 1),
                          k, M, n, N, half_b)

\* return_value.min(Decimal(1)).max(Decimal(0)) in the context of the
\* reporting precision
clamp01(x) ==
    decimal_max(decimal_min(x, DecOne, INT_DECIMAL_REPORTING_PRECISION), DecZero,
                INT_DECIMAL_REPORTING_PRECISION)

\* "+cdf" / "+sf" after a walk: the sum of the loop, computed at the
\* computational precision, is rounded to the reporting precision
walk_rounded(r, branch) ==
    [val |-> decimal_of_value(r.val, INT_DECIMAL_REPORTING_PRECISION),
     loop_iters |-> r.loop_iters, branch |-> branch]

\* "+cdf" / "+sf" after the degenerate branch
degenerate_rounded(value) ==
    [val |-> decimal_rounded(value, INT_DECIMAL_REPORTING_PRECISION),
     loop_iters |-> 0, branch |-> "degenerate"]

\* the end of the function: the rounded value of branch result r is clamped
sum_return(r) ==
    [val |-> clamp01(r.val), loop_iters |-> r.loop_iters, branch |-> r.branch]

sum_hypergeom_pmfs_run(k, M, n, N, bool_use_half_of_boundary_pmf, bool_true_cdf_false_sf_none_min) ==
    sum_return(
        IF sum_is_degenerate(k, M, n, N, bool_use_half_of_boundary_pmf)
        THEN degenerate_rounded(
                 sum_degenerate(k, M, n, N, bool_use_half_of_boundary_pmf,
                                bool_true_cdf_false_sf_none_min))
        ELSE IF bool_true_cdf_false_sf_none_min
        THEN walk_rounded(sum_cdf_walk(k, M, n, N, bool_use_half_of_boundary_pmf),
                          "cdf_walk")
        ELSE walk_rounded(sum_sf_walk(k, M, n, N, bool_use_half_of_boundary_pmf),
                          "sf_walk"))

sum_hypergeom_pmfs(k, M, n, N, bool_use_half_of_boundary_pmf, bool_true_cdf_false_sf_none_min) ==
    sum_hypergeom_pmfs_run(k, M, n, N, bool_use_half_of_boundary_pmf,
                           bool_true_cdf_false_sf_none_min).val

(***************************************************************************)
(* The exact evaluators of CDF, SF and min(CDF, SF).  path names the       *)
(* branch taken: which tail was summed first and whether the requested     *)
(* tail came from the subtraction 1 - x or from a second summation.  The   *)
(* tails come back from _sum_hypergeom_pmfs rounded to the reporting       *)
(* precision, and the context of the evaluator has that precision from     *)
(* then on: _sum_hypergeom_pmfs sets the precision of the current context, *)
(* which is the evaluator's.                                               *)
(***************************************************************************)
\* half = Decimal(.5); x < half
below_half(x) == decimal_lt(x, DecHalf)

\* one - x
one_minus(x) == decimal_sub(DecOne, x, INT_DECIMAL_REPORTING_PRECISION)

\* the built-in min(cdf, sf): its first argument unless the second is less
builtin_min(cdf, sf) == IF decimal_lt(sf, cdf) THEN sf ELSE cdf

\* the end of an exact evaluator: "+Decimal(x)" in a local context of the
\* reporting precision
evaluator_return(r) ==
    [val |-> decimal_rounded(r.val, INT_DECIMAL_REPORTING_PRECISION), path |-> r.path]

\* the cost comparison that picks the summation direction
cdf_side_is_cheaper(k, M, n, N) ==
    min(N + N, n + n) + max(1, (k - 1) * 4)
        <= min(M - N + M - N, n + n) + max(1, (n - k - 1) * 4)

\* Each selection below takes the outcome of the cost comparison and the two
\* tails as _sum_hypergeom_pmfs returns them; the tail of the dearer side is
\* looked at only on the paths where the code computes it.

\* mutant: the sf below 1/2 is returned as the cdf, without the subtraction
exact_cdf_select_no_subtraction(bool_cdf_side, cdf, sf) ==
    IF bool_cdf_side
    THEN [val |-> cdf, path |-> "cdf"]
    ELSE IF below_half(sf)
    THEN [val |-> sf, path |-> "one_minus_sf"]
    ELSE [val |-> cdf, path |-> "sf_then_cdf"]

\* the branches of exact_hypergeom_cdf
exact_cdf_select(bool_cdf_side, cdf, sf) ==
    IF bool_cdf_side
    THEN [val |-> cdf, path |-> "cdf"]
    ELSE IF below_half(sf)
    THEN [val |-> one_minus(sf), path |-> "one_minus_sf"]
    ELSE [val |-> cdf, path |-> "sf_then_cdf"]

exact_hypergeom_cdf_run(k, M, n, N, half_b) ==
    evaluator_return(
        exact_cdf_select(cdf_side_is_cheaper(k, M, n, N),
                         sum_hypergeom_pmfs(k, M, n, N, half_b, TRUE),
                         sum_hypergeom_pmfs(k, M, n, N, half_b, FALSE)))

exact_hypergeom_cdf(k, M, n, N, half_b) == exact_hypergeom_cdf_run(k, M, n, N, half_b).val

\* the branches of exact_hypergeom_sf
exact_sf_select(bool_cdf_side, cdf, sf) ==
    IF bool_cdf_side
    THEN IF below_half(cdf)
         THEN [val |-> one_minus(cdf), path |-> "one_minus_cdf"]
         ELSE [val |-> sf, path |-> "cdf_then_sf"]
    ELSE [val |-> sf, path |-> "sf"]

exact_hypergeom_sf_run(k, M, n, N, half_b) ==
    evaluator_return(
        exact_sf_select(cdf_side_is_cheaper(k, M, n, N),
                        sum_hypergeom_pmfs(k, M, n, N, half_b, TRUE),
                        sum_hypergeom_pmfs(k, M, n, N, half_b, FALSE)))

exact_hypergeom_sf(k, M, n, N, half_b) == exact_hypergeom_sf_run(k, M, n, N, half_b).val

\* mutant: the first computed tail is returned whatever its value
exact_min_select_first_tail(bool_cdf_side, cdf, sf) ==
    IF bool_cdf_side
    THEN [val |-> cdf, path |-> "cdf_only"]
    ELSE [val |-> sf, path |-> "sf_only"]

\* the branches of exact_hypergeom_min_cdf_sf
exact_min_select(bool_cdf_side, cdf, sf) ==
    IF bool_cdf_side
    THEN IF below_half(cdf)
         THEN [val |-> cdf, path |-> "cdf_only"]
         ELSE [val |-> builtin_min(cdf, sf), path |-> "cdf_then_sf"]
    ELSE IF below_half(sf)
         THEN [val |-> sf, path |-> "sf_only"]
         ELSE [val |-> builtin_min(cdf, sf), path |-> "sf_then_cdf"]

exact_hypergeom_min_cdf_sf_run(k, M, n, N) ==
    evaluator_return(
        exact_min_select(cdf_side_is_cheaper(k, M, n, N),
                         sum_hypergeom_pmfs(k, M, n, N, TRUE, TRUE),
                         sum_hypergeom_pmfs(k, M, n, N, TRUE, FALSE)))

exact_hypergeom_min_cdf_sf(k, M, n, N) == exact_hypergeom_min_cdf_sf_run(k, M, n, N).val

(***************************************************************************)
(* Python floats.  The selector's normal-approximation test runs in        *)
(* floats, IEEE 754 binary64: every operation returns the exact result     *)
(* rounded to 53 significant bits, ties to even.  A float is a record      *)
(* [neg, m, e] that stands for (-1)^neg * m * 2^e, where m is a natural    *)
(* number below 2^53 (or 2^53 itself) kept as a sequence of limbs in base  *)
(* 2^15, least significant first, <<>> for 0.  Overflow and subnormal      *)
(* results are out of reach of the quantities of the selector (ratios and  *)
(* products of small integers and of the thresholds) and are not modelled. *)
(***************************************************************************)
LimbBits == 15
LimbBase == 2 ^ LimbBits
MantissaBits == 53

limb(x, i) == IF 1 <= i /\ i <= Len(x) THEN x[i] ELSE 0

RECURSIVE big_trim(_)
big_trim(x) ==
    IF x = <<>> THEN <<>>
    ELSE IF x[Len(x)] = 0 THEN big_trim(SubSeq(x, 1, Len(x) - 1))
    ELSE x

\* the limbs of a natural number below 2^31
big_of_nat(a) ==
    big_trim(<<a % LimbBase, (a \div LimbBase) % LimbBase, a \div (LimbBase * LimbBase)>>)

RECURSIVE big_add_from(_, _, _, _, _)
big_add_from(x, y, i, carry, acc) ==
    IF i > max(Len(x), Len(y))
    THEN IF carry = 0 THEN acc ELSE Append(acc, carry)
    ELSE big_add_from(x, y, i + 1, (limb(x, i) + limb(y, i) + carry) \div LimbBase,
                      Append(acc, (limb(x, i) + limb(y, i) + carry) % LimbBase))

big_add(x, y) == big_add_from(x, y, 1, 0, <<>>)

RECURSIVE big_sub_from(_, _, _, _, _)
big_sub_from(x, y, i, borrow, acc) ==
    IF i > Len(x) THEN big_trim(acc)
    ELSE big_sub_from(x, y, i + 1, IF x[i] - limb(y, i) - borrow < 0 THEN 1 ELSE 0,
                      Append(acc, (x[i] - limb(y, i) - borrow) % LimbBase))

\* x - y for x >= y
big_sub(x, y) == big_sub_from(x, y, 1, 0, <<>>)

RECURSIVE big_cmp_from(_, _, _)
big_cmp_from(x, y, i) ==
    IF i = 0 THEN 0
    ELSE IF x[i] < y[i] THEN -1
    ELSE IF x[i] > y[i] THEN 1
    ELSE big_cmp_from(x, y, i - 1)

\* -1, 0 or 1 as x < y, x = y or x > y (x and y without leading zero limbs)
big_cmp(x, y) ==
    IF Len(x) < Len(y) THEN -1
    ELSE IF Len(x) > Len(y) THEN 1
    ELSE big_cmp_from(x, y, Len(x))

RECURSIVE big_mul_limb_from(_, _, _, _, _)
big_mul_limb_from(x, d, i, carry, acc) ==
    IF i > Len(x)
    THEN IF carry = 0 THEN acc ELSE Append(acc, carry)
    ELSE big_mul_limb_from(x, d, i + 1, (x[i] * d + carry) \div LimbBase,
                           Append(acc, (x[i] * d + carry) % LimbBase))

\* x * d for a limb d
big_mul_limb(x, d) == big_trim(big_mul_limb_from(x, d, 1, 0, <<>>))

RECURSIVE big_mul_row_from(_, _, _, _, _, _, _)
big_mul_row_from(acc, x, d, q, i, carry, out) ==
    IF i > Len(x)
    THEN IF carry = 0 THEN out ELSE Append(out, carry)
    ELSE big_mul_row_from(acc, x, d, q, i + 1,
                          (limb(acc, q + i) + x[i] * d + carry) \div LimbBase,
                          Append(out, (limb(acc, q + i) + x[i] * d + carry) % LimbBase))

\* acc + x * d * LimbBase^q for a limb d and acc < LimbBase^(q + Len(x))
big_mul_row(acc, x, d, q) ==
    big_mul_row_from(acc, x, d, q, 1, 0, [i \in 1..q |-> limb(acc, i)])

RECURSIVE big_mul_from(_, _, _, _)
big_mul_from(x, y, j, acc) ==
    IF j > Len(y) THEN big_trim(acc)
    ELSE big_mul_from(x, y, j + 1, big_mul_row(acc, x, y[j], j - 1))

big_mul(x, y) == IF x = <<>> THEN <<>> ELSE big_mul_from(x, y, 1, <<>>)

\* x * LimbBase^q * 2^r for r < LimbBits: no carry runs between the limbs
big_shl_by(x, q, r) ==
    big_trim([i \in 1..(Len(x) + q + 1) |->
                 ((limb(x, i - q) * 2 ^ r) % LimbBase)
                 + (limb(x, i - q - 1) \div 2 ^ (LimbBits - r))])

\* x * 2^s
big_shl(x, s) == big_shl_by(x, s \div LimbBits, s % LimbBits)

\* x \div 2^s
big_shr(x, s) ==
    big_trim([i \in 1..(Len(x) - s \div LimbBits) |->
                 (limb(x, i + s \div LimbBits) \div 2 ^ (s % LimbBits))
                 + (limb(x, i + s \div LimbBits + 1) % 2 ^ (s % LimbBits))
                   * 2 ^ (LimbBits - (s % LimbBits))])

\* the bit of weight 2^i of x
big_bit(x, i) == (limb(x, i \div LimbBits + 1) \div 2 ^ (i % LimbBits)) % 2

\* x % 2^s = 0
big_low_is_zero(x, s) ==
    /\ \A i \in 1..(s \div LimbBits) : limb(x, i) = 0
    /\ limb(x, s \div LimbBits + 1) % 2 ^ (s % LimbBits) = 0

\* the number of bits of x (0 for 0)
big_bitlen(x) ==
    IF x = <<>> THEN 0
    ELSE LimbBits * (Len(x) - 1)
         + (CHOOSE b \in 1..LimbBits : 2 ^ (b - 1) <= x[Len(x)] /\ x[Len(x)] < 2 ^ b)

RECURSIVE big_divmod_from(_, _, _, _, _)
big_divmod_from(x, d, i, rem, acc) ==
    IF i = 0 THEN [quot |-> big_trim(acc), rem |-> rem]
    ELSE big_divmod_from(x, d, i - 1, (rem * LimbBase + x[i]) % d,
                         <<(rem * LimbBase + x[i]) \div d>> \o acc)

\* quotient and remainder of x by a positive integer d <= 2^16
big_divmod(x, d) == big_divmod_from(x, d, Len(x), 0, <<>>)

FloatZero(neg) == [neg |-> neg, m |-> <<>>, e |-> 0]

\* m * 2^e rounded to MantissaBits bits, ties to even; inexact tells that the
\* exact value is above m * 2^e by less than one unit of the last bit of m
float_round_at(neg, m, e, s, inexact) ==
    IF big_bit(m, s - 1) = 1
       /\ (~big_low_is_zero(m, s - 1) \/ inexact \/ big_bit(m, s) = 1)
    THEN [neg |-> neg, m |-> big_add(big_shr(m, s), <<1>>), e |-> e + s]
    ELSE [neg |-> neg, m |-> big_shr(m, s), e |-> e + s]

float_round_of(neg, m, e, len, inexact) ==
    IF len <= MantissaBits THEN [neg |-> neg, m |-> m, e |-> e]
    ELSE float_round_at(neg, m, e, len - MantissaBits, inexact)

float_round(neg, m, e, inexact) ==
    IF m = <<>> THEN FloatZero(neg)
    ELSE float_round_of(neg, m, e, big_bitlen(m), inexact)

\* float(a) for an integer a
float_of_int(a) == [neg |-> a < 0, m |-> big_of_nat(Abs(a)), e |-> 0]

\* a / b for integers a and b # 0: the quotient is taken to 75 bits after the
\* point, which leaves more than MantissaBits + 1 bits to round from
float_div_of(neg, r) == float_round(neg, r.quot, -75, r.rem # 0)

float_div(a, b) ==
    IF a = 0 THEN FloatZero((b < 0))
    ELSE float_div_of((a < 0) # (b < 0), big_divmod(big_shl(big_of_nat(Abs(a)), 75), Abs(b)))

\* the float a threshold written as the fraction t[1] / t[2] denotes
float_of_fraction(t) == float_div(t[1], t[2])

float_mul(x, y) == float_round(x.neg # y.neg, big_mul(x.m, y.m), x.e + y.e, FALSE)

float_neg(x) == [x EXCEPT !.neg = ~x.neg]

\* the mantissa of x at the exponent e <= x.e
float_aligned(x, e) == big_shl(x.m, x.e - e)

\* the sum of the floats of signs x_neg and y_neg and mantissas a and b at
\* the exponent e
float_add_aligned(x_neg, y_neg, a, b, e) ==
    IF x_neg = y_neg THEN float_round(x_neg, big_add(a, b), e, FALSE)
    ELSE IF big_cmp(a, b) >= 0 THEN float_round(x_neg, big_sub(a, b), e, FALSE)
    ELSE float_round(y_neg, big_sub(b, a), e, FALSE)

float_add_at(x, y, e) ==
    float_add_aligned(x.neg, y.neg, float_aligned(x, e), float_aligned(y, e), e)

float_add(x, y) == float_add_at(x, y, min(x.e, y.e))
float_sub(x, y) == float_add(x, float_neg(y))

\* -1, 0 or 1 as x < y, x = y or x > y
float_sign(x) == IF x.m = <<>> THEN 0 ELSE IF x.neg THEN -1 ELSE 1

float_cmp(x, y) ==
    IF float_sign(x) # float_sign(y)
    THEN (IF float_sign(x) < float_sign(y) THEN -1 ELSE 1)
    ELSE float_sign(x) * big_cmp(float_aligned(x, min(x.e, y.e)),
                                 float_aligned(y, min(x.e, y.e)))

float_le(x, y) == float_cmp(x, y) <= 0

RECURSIVE int_isqrt_from(_, _, _)
int_isqrt_from(a, s, b) ==
    IF b < 0 THEN s
    ELSE IF (s + 2 ^ b) * (s + 2 ^ b) <= a THEN int_isqrt_from(a, s + 2 ^ b, b - 1)
    ELSE int_isqrt_from(a, s, b - 1)

\* the integer part of the square root of a natural number a below 2^30
int_isqrt(a) == int_isqrt_from(a, 0, LimbBits - 1)

\* The square root of x by limbs, the way it is taken by hand: s is the root
\* of the limbs of x taken so far and rem what is left of them, x - s^2; with
\* the next two limbs of x appended to rem, the next limb of the root is the
\* largest d with (2 * s * LimbBase + d) * d <= rem.
RECURSIVE big_isqrt_digit(_, _, _)
big_isqrt_digit(rem, two_s, d) ==
    IF big_cmp(big_mul_limb(<<d>> \o two_s, d), rem) <= 0 THEN d
    ELSE big_isqrt_digit(rem, two_s, d - 1)

\* a limb that is not below the next limb of the root: the quotient of the
\* two top limbs of half = rem / (2 * LimbBase) by the top limb of s
big_isqrt_estimate(half, s) ==
    min(LimbBase - 1,
        (limb(half, Len(s) + 1) * LimbBase + limb(half, Len(s))) \div s[Len(s)])

RECURSIVE big_isqrt_from(_, _, _, _)
big_isqrt_next(x, s, two_s, rem, d, j) ==
    big_isqrt_from(x, <<d>> \o s, big_sub(rem, big_mul_limb(<<d>> \o two_s, d)), j - 2)

big_isqrt_limb(x, s, two_s, rem, j) ==
    big_isqrt_next(x, s, two_s, rem,
                   big_isqrt_digit(rem, two_s,
                                   big_isqrt_estimate(big_shr(SubSeq(rem, 2, Len(rem)), 1), s)),
                   j)

\* j is the place of the upper of the next two limbs of x
big_isqrt_from(x, s, rem, j) ==
    IF j < 2 THEN [root |-> s, rem |-> rem]
    ELSE big_isqrt_limb(x, s, big_mul_limb(s, 2),
                        big_trim(<<x[j - 1], x[j]>> \o rem), j)

big_isqrt_top(x, top, s) ==
    big_isqrt_from(x, <<s>>, big_of_nat(top - s * s), Len(x) - 2)

\* the integer part of the square root of x and the remainder x - root^2, for
\* x of an even number of limbs with x >= LimbBase^Len(x) / 4: the two top
\* limbs give the top limb of the root, which is at least LimbBase / 2
big_isqrt(x) ==
    big_isqrt_top(x, x[Len(x)] * LimbBase + x[Len(x) - 1],
                  int_isqrt(x[Len(x)] * LimbBase + x[Len(x) - 1]))

\* math.sqrt(x) for x >= 0: the mantissa is scaled by 2^t to 8 limbs less 0
\* or 1 bit with x.e - t even, so that its integer square root has 4 limbs
float_sqrt_scaled(x, t, r) ==
    float_round(FALSE, r.root, (x.e - t) \div 2, r.rem # <<>>)

float_sqrt_at(x, t) == float_sqrt_scaled(x, t, big_isqrt(big_shl(x.m, t)))

float_sqrt_shift(x, t) == t + ((x.e - t) % 2)

float_sqrt(x) ==
    IF x.m = <<>> THEN x
    ELSE float_sqrt_at(x, float_sqrt_shift(x, 8 * LimbBits - 1 - big_bitlen(x.m)))


(***************************************************************************)
(* choose_hypergeom_algorithm.  The result is int_enum_algorithm:          *)
(* 0 exact, 1 Lanczos, 2 Spouge, 3 normal Taylor, 4 library (scipy).       *)
(* cfg holds the budgets and thresholds:                                   *)
(*   exact, lanczos, spouge  iteration budgets (integers),                 *)
(*   min_sample              int_min_sample_size_for_approx_normal,        *)
(*   max_frac                flt_max_sample_sz_frac_of_pop_sz_...,         *)
(*   max_diff                flt_max_abs_diff_pop_categ_frac_...,          *)
(*   min_devs                flt_min_num_std_devs_from_mean_...            *)
(* A float threshold is written as the fraction <<a, b>> and stands for    *)
(* the float a / b (<<1, 10>> is 0.1); the test of the normal              *)
(* approximation is computed in floats, operation by operation.            *)
(* mode is bool_true_cdf_false_sf_none_min: "cdf", "sf" or "min".          *)
(***************************************************************************)
exact_cost_for_pmf(k, n, N) ==
    IF k <= (n - k) THEN (k + k) + (N + N) ELSE (n - k + n - k) + (N + N)

exact_cost_for_tail(k, M, n, N, mode) ==
    IF mode = "min"
    THEN min(N + N, n + n) + max(1, (k - 1) * 4)
         + min(M - N + M - N, n + n) + max(1, (n - k - 1) * 4)
    ELSE IF mode = "cdf"
    THEN min(N + N, n + n) + max(1, (k - 1) * 4)
    ELSE min(M - N + M - N, n + n) + max(1, (n - k - 1) * 4)

lanczos_cost_for_tail(k, n) == (13 - 1) * 9 + max(1, (min(k, n - k) - 1) * 4)
spouge_cost_for_tail(k, n) == (20 - 1) * 9 + max(1, (min(k, n - k) - 1) * 4)

\* k <= mu - min_devs * sigma or k >= mu + min_devs * sigma
far_from_mean(k, below, above) ==
    float_le(float_of_int(k), below) \/ float_le(above, float_of_int(k))

\* the deviation condition
deviation_holds(mu, devs, k) ==
    far_from_mean(k, float_sub(mu, devs), float_add(mu, devs))

\* sigma = math.sqrt(mu * (1. - N_div_by_M))
deviation_holds_for(mu, N_div_by_M, k, cfg) ==
    deviation_holds(mu,
                    float_mul(float_of_fraction(cfg.min_devs),
                              float_sqrt(float_mul(mu, float_sub(float_of_int(1), N_div_by_M)))),
                    k)

\* the conditions of the normal approximation, for N_div_by_M = N / M;
\* mu = n * N_div_by_M
normal_conditions_for(N_div_by_M, k, M, n, cfg) ==
    /\ cfg.min_sample <= n
    /\ float_le(float_of_int(n),
                float_mul(float_of_fraction(cfg.max_frac), float_of_int(M)))
    /\ float_le(float_sub(float_div(1, 2), float_of_fraction(cfg.max_diff)), N_div_by_M)
    /\ float_le(N_div_by_M, float_add(float_div(1, 2), float_of_fraction(cfg.max_diff)))
    /\ deviation_holds_for(float_mul(float_of_int(n), N_div_by_M), N_div_by_M, k, cfg)

\* the three conditions of the normal approximation
normal_conditions_hold(k, M, n, N, cfg) ==
    normal_conditions_for(float_div(N, M), k, M, n, cfg)

\* The statements that open the last "else" of the decision list raise for
\* some (M, n, N): float(N) / float(M) raises ZeroDivisionError when M = 0,
\* and math.sqrt(mu * (1. - N_div_by_M)) raises ValueError when its argument
\* is negative (n * N * (M - N) < 0 for M > 0).
normal_setup_raises(M, n, N) == M = 0 \/ n * N * (M - N) < 0

\* the outcome of the selector when an exception leaves it
SELECTOR_RAISED == -1

exact_budget_test_reversed(int_cost, cfg) == cfg.exact <= int_cost

\* the first test of both branches: the estimated number of iterations of the
\* exact evaluator is within int_max_num_iters_for_exact_hypergeom
exact_within_budget(int_cost, cfg) == int_cost <= cfg.exact

choose_hypergeom_algorithm(k, M, n, N, cfg, bool_choose_for_pmf, mode) ==
    IF bool_choose_for_pmf
    THEN IF exact_within_budget(exact_cost_for_pmf(k, n, N), cfg) THEN 0
         ELSE IF (13 - 1) * 9 <= cfg.lanczos THEN 1
         ELSE IF (20 - 1) * 9 <= cfg.spouge THEN 2
         ELSE 4
    ELSE IF exact_within_budget(exact_cost_for_tail(k, M, n, N, mode), cfg) THEN 0
         ELSE IF lanczos_cost_for_tail(k, n) <= cfg.lanczos THEN 1
         ELSE IF spouge_cost_for_tail(k, n) <= cfg.spouge THEN 2
         ELSE IF normal_setup_raises(M, n, N) THEN SELECTOR_RAISED
         ELSE IF normal_conditions_hold(k, M, n, N, cfg) THEN 3
         ELSE 4

(***************************************************************************)
(* The evaluators whose values are not computed here raise for some        *)
(* queries.  The log-Gamma approximations divide by z + i for every i from *)
(* 1 to the number of their coefficients less one (13 coefficients lst_p   *)
(* for Lanczos, 20 coefficients lst_c for Spouge): Decimal raises          *)
(* DivisionByZero when z is one of -1, ..., -(coefficients - 1).  They     *)
(* take ctx.ln of z + g + 1/2 (Lanczos, g = 6.02468...) and of             *)
(* z + len(lst_c) (Spouge): Decimal raises InvalidOperation for the        *)
(* logarithm of a negative number.  At z = -len(lst_c) the logarithm of    *)
(* Spouge is ctx.ln(0), which is -Infinity: the log-Gamma term is          *)
(* Infinity, and Decimal raises InvalidOperation when such a term is added *)
(* and another one subtracted.                                             *)
(***************************************************************************)
log_gamma_divides_by_zero(z, int_coeffs) == 0 - (int_coeffs - 1) <= z /\ z <= -1

\* ctx.ln of a negative number: int_coeffs is 13 for
\* log_gamma_lanczos_approx (t = z + g + half < 0 from z = -7 down) and 20
\* for log_gamma_spouge_approx (z + len(lst_c) < 0)
log_gamma_ln_is_invalid(z, int_coeffs) ==
    IF int_coeffs = 13 THEN z + 7 <= 0 ELSE z + int_coeffs < 0

log_gamma_raises(z, int_coeffs) ==
    log_gamma_divides_by_zero(z, int_coeffs) \/ log_gamma_ln_is_invalid(z, int_coeffs)

\* the log-Gamma term is Infinity
log_gamma_is_infinite(z, int_coeffs) == int_coeffs = 20 /\ z + int_coeffs = 0

\* the places, among the nine terms, of those approx_hypergeom_pmf_lambda
\* adds and of those it subtracts
log_gamma_added == {2, 4, 6, 8}
log_gamma_subtracted == {1, 3, 5, 7, 9}

\* the arguments of the nine log-Gamma terms of approx_hypergeom_pmf_lambda
log_gamma_args(k, M, n, N) ==
    <<k, M - N, n - k, N, N - k, n, M, M - n, M - N - n + k>>

\* approx_hypergeom_pmf_inner(k, M, n, N) and the approximate PMF evaluators
\* raise
approx_pmf_raises(k, M, n, N, int_coeffs) ==
    \/ \E j \in 1..9 : log_gamma_raises(log_gamma_args(k, M, n, N)[j], int_coeffs)
    \/ /\ \E j \in log_gamma_added :
              log_gamma_is_infinite(log_gamma_args(k, M, n, N)[j], int_coeffs)
       /\ \E j \in log_gamma_subtracted :
              log_gamma_is_infinite(log_gamma_args(k, M, n, N)[j], int_coeffs)

\* what _sum_hypergeom_pmfs does with bool_numerical_approximation: kind
\* tells whether it raises; val is the value returned where no arithmetic
\* on an approximated term makes it (Decimal(1) and Decimal(0)), and NoVal
\* where the value is not computed here
approx_sum_of(bool_call_raises, val) ==
    IF bool_call_raises THEN [kind |-> "raise", val |-> NoVal]
    ELSE [kind |-> "value", val |-> val]

approx_sum_hypergeom_pmfs(k, M, n, N, half_b, cdf_b, int_coeffs) ==
    IF sum_is_degenerate(k, M, n, N, half_b)
    THEN approx_sum_of(approx_pmf_raises(k, M, n, N, int_coeffs),
                       IF half_b THEN NoVal ELSE IF cdf_b THEN DecOne ELSE DecZero)
    ELSE IF cdf_b
    THEN approx_sum_of(approx_pmf_raises(max(0, n + N - M), M, n, N, int_coeffs), NoVal)
    ELSE IF ~half_b /\ k = n
    THEN approx_sum_of(FALSE, DecZero)
    ELSE approx_sum_of(approx_pmf_raises(min(n, N), M, n, N, int_coeffs), NoVal)

\* "first < half" for the first tail of an approximate evaluator.  Where the
\* value is not computed here it is taken to lie on the side of 1/2 on which
\* the exact tail lies.
approx_first_below_half(first, k, M, n, N, half_b, cdf_b) ==
    IF first.val # NoVal THEN below_half(first.val)
    ELSE below_half(sum_hypergeom_pmfs(k, M, n, N, half_b, cdf_b))

\* the kind of what an approximate tail evaluator does, first and second
\* being the summations of the side tried first and of the other side
approx_tail_kind_of(bool_wants_first, first, bool_first_below_half, second) ==
    IF first.kind = "raise" THEN "raise"
    ELSE IF bool_wants_first THEN "value"
    ELSE IF bool_first_below_half THEN "value"
    ELSE second.kind

\* approx_lanczos_* and approx_spouge_* of the tails: the side k <= n - k
\* sums the CDF first; mode is "cdf", "sf" or "min"
approx_tail_kind(k, M, n, N, half_b, mode, int_coeffs) ==
    approx_tail_kind_of(
        mode = (IF k <= n - k THEN "cdf" ELSE "sf"),
        approx_sum_hypergeom_pmfs(k, M, n, N, half_b, k <= n - k, int_coeffs),
        approx_first_below_half(
            approx_sum_hypergeom_pmfs(k, M, n, N, half_b, k <= n - k, int_coeffs),
            k, M, n, N, half_b, k <= n - k),
        approx_sum_hypergeom_pmfs(k, M, n, N, half_b, ~(k <= n - k), int_coeffs))

\* _sum_taylor_normal_cdf_terms returns Decimal('nan') for a query that
\* violates the invariant; normal_taylor_hypergeom_min_cdf_sf compares it
\* with half, which raises InvalidOperation
normal_taylor_min_raises(k, M, n, N) == ~ValidQuery(k, M, n, N)

\* scipy's hypergeom gives nan for arguments (M, n, N) outside the domain of
\* the distribution; scipy_hypergeom_min_cdf_sf with bool_use_decimal_type
\* compares the Decimal NaN with half, which raises InvalidOperation
scipy_min_raises(M, n, N) == ~(M > 0 /\ 0 <= n /\ n <= M /\ 0 <= N /\ N <= M)

(***************************************************************************)
(* The facades.  A facade returns [kind, alg, val]: kind is "raise" when   *)
(* the exception of the selector or of the evaluator propagates to the     *)
(* caller, "value" when an evaluator was dispatched to and returned,       *)
(* "none" when the dispatch fell through to "return None"; alg is the      *)
(* selector's choice; val is the value when the exact evaluator produced   *)
(* it and NoVal otherwise.                                                 *)
(***************************************************************************)
\* what a facade returns when it dispatches to the exact evaluator of a
\* tail: the evaluator's value (path is the branch the evaluator took)
exact_result(run) == [kind |-> "value", alg |-> 0, val |-> run.val, path |-> run.path]

\* what a facade returns when it calls a function whose value is not
\* computed here, when the selector raised, and when it calls no function;
\* evaluator names the function whose result the facade returns
opaque_result(int_enum_algorithm, evaluator) ==
    [kind |-> "value", alg |-> int_enum_algorithm, val |-> NoVal,
     evaluator |-> evaluator]

\* what a facade does when it calls such a function that returns or raises
opaque_result_of(kind, int_enum_algorithm, evaluator) ==
    [kind |-> kind, alg |-> int_enum_algorithm, val |-> NoVal,
     evaluator |-> evaluator]

approx_pmf_result(int_enum_algorithm, evaluator, k, M, n, N, int_coeffs) ==
    opaque_result_of(IF approx_pmf_raises(k, M, n, N, int_coeffs) THEN "raise" ELSE "value",
                     int_enum_algorithm, evaluator)

approx_tail_result(int_enum_algorithm, evaluator, k, M, n, N, half_b, mode, int_coeffs) ==
    opaque_result_of(approx_tail_kind(k, M, n, N, half_b, mode, int_coeffs),
                     int_enum_algorithm, evaluator)

selector_raised_result ==
    [kind |-> "raise", alg |-> SELECTOR_RAISED, val |-> NoVal, evaluator |-> "none"]

none_result(int_enum_algorithm) ==
    [kind |-> "none", alg |-> int_enum_algorithm, val |-> NoVal, evaluator |-> "none"]

\* the dispatch of custom_hypergeom_pmf on the selector's choice
pmf_dispatch(int_enum_algorithm, k, M, n, N) ==
    IF int_enum_algorithm = SELECTOR_RAISED
    THEN selector_raised_result
    ELSE IF int_enum_algorithm = 0
    THEN [kind |-> "value", alg |-> 0, val |-> exact_hypergeom_pmf(k, M, n, N),
          evaluator |-> "exact_hypergeom_pmf"]
    ELSE IF int_enum_algorithm = 1
    THEN approx_pmf_result(1, "approx_lanczos_hypergeom_pmf", k, M, n, N, 13)
    ELSE IF int_enum_algorithm = 2
    THEN approx_pmf_result(2, "approx_spouge_hypergeom_pmf", k, M, n, N, 20)
    ELSE IF int_enum_algorithm = 4
    THEN opaque_result(4, "scipy_hypergeom_pmf")
    ELSE none_result(int_enum_algorithm)

custom_hypergeom_pmf(k, M, n, N, cfg) ==
    pmf_dispatch(choose_hypergeom_algorithm(k, M, n, N, cfg, TRUE, "min"), k, M, n, N)

\* the dispatch of custom_hypergeom_cdf: the second "elif" compares the
\* function approx_spouge_hypergeom_cdf with 2, which is false for every
\* int_enum_algorithm; its branch would call approx_lanczos_hypergeom_cdf
cdf_dispatch(int_enum_algorithm, k, M, n, N, half_b) ==
    IF int_enum_algorithm = SELECTOR_RAISED
    THEN selector_raised_result
    ELSE IF int_enum_algorithm = 0
    THEN [evaluator |-> "exact_hypergeom_cdf"] @@
         exact_result(exact_hypergeom_cdf_run(k, M, n, N, half_b))
    ELSE IF int_enum_algorithm = 1
    THEN approx_tail_result(1, "approx_lanczos_hypergeom_cdf", k, M, n, N, half_b,
                            "cdf", 13)
    ELSE IF FALSE
    THEN approx_tail_result(2, "approx_lanczos_hypergeom_cdf", k, M, n, N, half_b,
                            "cdf", 13)
    ELSE IF int_enum_algorithm = 3
    THEN opaque_result(3, "normal_taylor_hypergeom_cdf")
    ELSE IF int_enum_algorithm = 4
    THEN opaque_result(4, "scipy_hypergeom_cdf")
    ELSE none_result(int_enum_algorithm)

custom_hypergeom_cdf(k, M, n, N, half_b, cfg) ==
    cdf_dispatch(choose_hypergeom_algorithm(k, M, n, N, cfg, FALSE, "cdf"),
                 k, M, n, N, half_b)

\* the dispatch of custom_hypergeom_sf
sf_dispatch(int_enum_algorithm, k, M, n, N, half_b) ==
    IF int_enum_algorithm = SELECTOR_RAISED
    THEN selector_raised_result
    ELSE IF int_enum_algorithm = 0
    THEN [evaluator |-> "exact_hypergeom_sf"] @@
         exact_result(exact_hypergeom_sf_run(k, M, n, N, half_b))
    ELSE IF int_enum_algorithm = 1
    THEN approx_tail_result(1, "approx_lanczos_hypergeom_sf", k, M, n, N, half_b,
                            "sf", 13)
    ELSE IF int_enum_algorithm = 2
    THEN approx_tail_result(2, "approx_spouge_hypergeom_sf", k, M, n, N, half_b,
                            "sf", 20)
    ELSE IF int_enum_algorithm = 3
    THEN opaque_result(3, "normal_taylor_hypergeom_sf")
    ELSE IF int_enum_algorithm = 4
    THEN opaque_result(4, "scipy_hypergeom_sf")
    ELSE none_result(int_enum_algorithm)

custom_hypergeom_sf(k, M, n, N, half_b, cfg) ==
    sf_dispatch(choose_hypergeom_algorithm(k, M, n, N, cfg, FALSE, "sf"),
                k, M, n, N, half_b)

\* the dispatch of custom_hypergeom_min_cdf_sf
min_cdf_sf_dispatch(int_enum_algorithm, k, M, n, N) ==
    IF int_enum_algorithm = SELECTOR_RAISED
    THEN selector_raised_result
    ELSE IF int_enum_algorithm = 0
    THEN [evaluator |-> "exact_hypergeom_min_cdf_sf"] @@
         exact_result(exact_hypergeom_min_cdf_sf_run(k, M, n, N))
    ELSE IF int_enum_algorithm = 1
    THEN approx_tail_result(1, "approx_lanczos_hypergeom_min_cdf_sf", k, M, n, N, TRUE,
                            "min", 13)
    ELSE IF int_enum_algorithm = 2
    THEN approx_tail_result(2, "approx_spouge_hypergeom_min_cdf_sf", k, M, n, N, TRUE,
                            "min", 20)
    ELSE IF int_enum_algorithm = 3
    THEN opaque_result_of(IF normal_taylor_min_raises(k, M, n, N) THEN "raise" ELSE "value",
                          3, "normal_taylor_hypergeom_min_cdf_sf")
    ELSE IF int_enum_algorithm = 4
    THEN opaque_result_of(IF scipy_min_raises(M, n, N) THEN "raise" ELSE "value",
                          4, "scipy_hypergeom_min_cdf_sf")
    ELSE none_result(int_enum_algorithm)

custom_hypergeom_min_cdf_sf(k, M, n, N, cfg) ==
    min_cdf_sf_dispatch(choose_hypergeom_algorithm(k, M, n, N, cfg, FALSE, "min"),
                        k, M, n, N)

(***************************************************************************)
(* compute_outlier_score_for_choice of eo.py.  With bool_use_decimal_type  *)
(* the score of a query that passes the test is what                       *)
(* custom_hypergeom_min_cdf_sf returns, without it what                    *)
(* scipy_hypergeom_min_cdf_sf returns (a float, not computed here); a      *)
(* query that fails the test scores 0.  engine names the function the      *)
(* score came from, bm_engine the one the benchmark score came from.       *)
(***************************************************************************)
compute_outlier_score_without_validity_test(k, M, n, N, bool_use_decimal_type, cfg) ==
    IF bool_use_decimal_type
    THEN [engine |-> "custom_hypergeom_min_cdf_sf",
          bm_engine |-> "scipy_hypergeom_min_cdf_sf"] @@
         custom_hypergeom_min_cdf_sf(k, M, n, N, cfg)
    ELSE [engine |-> "scipy_hypergeom_min_cdf_sf",
          bm_engine |-> "scipy_hypergeom_min_cdf_sf",
          kind |-> "value", alg |-> 4, val |-> NoVal]

compute_outlier_score_for_choice(k, M, n, N, bool_use_decimal_type, cfg) ==
    IF /\ 0 < M
       /\ 0 <= N /\ N <= M
       /\ 0 <= n /\ n <= M
       /\ 0 <= k /\ k <= N
       /\ 0 <= n - k /\ n - k <= M - N
    THEN IF bool_use_decimal_type
         THEN [engine |-> "custom_hypergeom_min_cdf_sf",
               bm_engine |-> "scipy_hypergeom_min_cdf_sf"] @@
              custom_hypergeom_min_cdf_sf(k, M, n, N, cfg)
         ELSE [engine |-> "scipy_hypergeom_min_cdf_sf",
               bm_engine |-> "scipy_hypergeom_min_cdf_sf",
               kind |-> "value", alg |-> 4, val |-> NoVal]
    ELSE [engine |-> "none", bm_engine |-> "none",
          kind |-> "value", alg |-> SELECTOR_RAISED, val |-> DecZero]

(***************************************************************************)
(* Budget and threshold configurations the facades are called with: every  *)
(* iteration budget is positive.                                           *)
(***************************************************************************)
ExactBudgets == {1, 8, INT_MAX_NUM_ITERS_FOR_EXACT_HYPERGEOM}
LanczosBudgets == {1, INT_MAX_NUM_ITERS_FOR_LANCZOS_APPROX_HYPERGEOM}
SpougeBudgets == {1, INT_MAX_NUM_ITERS_FOR_SPOUGE_APPROX_HYPERGEOM}

\* thresholds of the normal approximation: the defaults, and a permissive set
\* (0, 1.0, 0.25, 0.75); a threshold <<a, b>> is the float nearest to a / b
NormalThresholds ==
    { [min_sample |-> INT_MIN_SAMPLE_SZ_FOR_APPROX_NORMAL,
       max_frac |-> <<1, 10>>, max_diff |-> <<1, 10>>, min_devs |-> Zero],
      [min_sample |-> 0,
       max_frac |-> One, max_diff |-> <<1, 4>>, min_devs |-> <<3, 4>>] }

Configs ==
    { [exact |-> e, lanczos |-> l, spouge |-> s,
       min_sample |-> t.min_sample, max_frac |-> t.max_frac,
       max_diff |-> t.max_diff, min_devs |-> t.min_devs] :
      e \in ExactBudgets, l \in LanczosBudgets, s \in SpougeBudgets,
      t \in NormalThresholds }

(***************************************************************************)
(* The decimal context.  The engine computes in Python's decimal module,   *)
(* whose current context holds the precision of every operation.  Only the *)
(* precision is modelled.  "with localcontext() as ctx" runs its block in  *)
(* a copy of the current context and makes the caller's context current    *)
(* again at exit; "getcontext().prec = x" outside such a block changes the *)
(* caller's context.  Every *_ctx operator takes prec, the precision of    *)
(* the current context when the function is entered, and gives             *)
(*   exit  the precision of that context when the function returns,        *)
(*   used  the precisions at which the function's arithmetic ran.          *)
(***************************************************************************)

\* the precision of the current context after a "with localcontext()" block
after_localcontext(prec_before, prec_in_block) == prec_before

compute_fraction_ctx_without_final_set(prec, comp, rep) ==
    [exit |-> after_localcontext(prec, comp),
     used |-> {comp, after_localcontext(prec, comp)}]

\* _compute_fraction_for_hypergeom_pmf: the loop runs in a local context at
\* comp; after the block the current context is set to rep and the result
\* is rounded in it
compute_fraction_ctx(prec, comp, rep) ==
    [exit |-> rep, used |-> {comp, rep}]

\* _compute_fraction_for_hypergeom_pmf inside its loops: the arithmetic so
\* far ran in the local context at comp, the caller's context is untouched
compute_fraction_loop_ctx(prec, comp) ==
    [exit |-> prec, used |-> {comp}]

\* exact_hypergeom_pmf returns what _compute_fraction_for_hypergeom_pmf does
exact_hypergeom_pmf_ctx(prec, comp, rep) == compute_fraction_ctx(prec, comp, rep)

\* the degenerate branch of _sum_hypergeom_pmfs: exact_hypergeom_pmf, then
\* "/ 2", "+=" and "-=" in the current context as the call left it, then
\* the current context is set to rep and the result is rounded in it
sum_degenerate_ctx(pmf_ctx, rep) ==
    [exit |-> rep, used |-> pmf_ctx.used \cup {pmf_ctx.exit, rep}]

\* a walk computes a first term, except the SF walk without the boundary
\* term at k = n, which returns 0 ("sf = Decimal(0)")
sum_walk_has_terms(k, n, half_b, bool_cdf) == bool_cdf \/ half_b \/ k # n

\* the walks of _sum_hypergeom_pmfs: the first term is computed with the
\* reporting precision comp, the loop runs in a local context at comp, then
\* the current context is set to rep and the result is rounded in it; the
\* walk without terms has the rounding only
sum_walk_ctx(first_ctx, bool_has_terms, comp, rep) ==
    IF bool_has_terms
    THEN [exit |-> rep, used |-> first_ctx.used \cup {comp, rep}]
    ELSE [exit |-> rep, used |-> {rep}]

sum_hypergeom_pmfs_ctx(prec, bool_degenerate, bool_has_terms, comp, rep) ==
    IF bool_degenerate
    THEN sum_degenerate_ctx(exact_hypergeom_pmf_ctx(prec, comp, rep), rep)
    ELSE sum_walk_ctx(compute_fraction_ctx(prec, comp, comp), bool_has_terms, comp, rep)

\* the second summation of a tail evaluator starts in the context the first
\* one left; "one - tail" runs in the context the last summation left
exact_tail_inner_ctx(first_ctx, last_ctx, bool_subtracts) ==
    [exit |-> last_ctx.exit,
     used |-> first_ctx.used \cup last_ctx.used
              \cup (IF bool_subtracts THEN {last_ctx.exit} ELSE {})]

\* exact_hypergeom_cdf, exact_hypergeom_sf and exact_hypergeom_min_cdf_sf:
\* the summations run inside a local context set to comp, the result is
\* rounded inside a second local context set to rep
exact_tail_wrap_ctx(prec, inner_ctx, rep) ==
    [exit |-> after_localcontext(after_localcontext(prec, inner_ctx.exit), rep),
     used |-> inner_ctx.used \cup {rep}]

\* the first summation of the branch path is the one of the CDF
path_sums_cdf_first(path) == path \in {"cdf", "one_minus_cdf", "cdf_only", "cdf_then_sf"}

\* bool_sf_has_terms: the SF summation of the query computes a first term
exact_tail_ctx(prec, bool_degenerate, bool_sf_has_terms, path, comp, rep) ==
    exact_tail_wrap_ctx(
        prec,
        exact_tail_inner_ctx(
            sum_hypergeom_pmfs_ctx(comp, bool_degenerate,
                                   path_sums_cdf_first(path) \/ bool_sf_has_terms,
                                   comp, rep),
            IF path \in {"cdf", "sf", "one_minus_sf", "one_minus_cdf",
                         "cdf_only", "sf_only"}
            THEN sum_hypergeom_pmfs_ctx(comp, bool_degenerate,
                                        path_sums_cdf_first(path) \/ bool_sf_has_terms,
                                        comp, rep)
            ELSE sum_hypergeom_pmfs_ctx(rep, bool_degenerate,
                                        ~path_sums_cdf_first(path) \/ bool_sf_has_terms,
                                        comp, rep),
            path \in {"one_minus_sf", "one_minus_cdf"}),
        rep)

\* The evaluators whose values are not computed here.
\* approx_lanczos_hypergeom_pmf, approx_spouge_hypergeom_pmf and
\* approx_hypergeom_pmf_inner: the log-Gamma terms and ctx.exp run in a local
\* context at comp, which an exception leaves; after the block
\* "getcontext().prec = int_decimal_reporting_precision" and "pmf = +pmf"
approx_pmf_ctx(kind, prec, comp, rep) ==
    IF kind = "raise"
    THEN [exit |-> after_localcontext(prec, comp), used |-> {comp}]
    ELSE [exit |-> rep, used |-> {comp, rep}]

\* scipy_hypergeom_pmf, _cdf, _sf, _min_cdf_sf with bool_use_decimal_type:
\* "+Decimal(...)" in local contexts at rep
scipy_ctx(prec, rep) == [exit |-> after_localcontext(prec, rep), used |-> {rep}]

\* _sum_hypergeom_pmfs with bool_numerical_approximation, sum being what
\* approx_sum_hypergeom_pmfs gives: approx_hypergeom_pmf_inner takes the
\* place of the exact PMF, and its exception leaves the function
approx_sum_ctx(sum, prec, bool_degenerate, bool_has_terms, comp, rep) ==
    IF bool_degenerate
    THEN IF sum.kind = "raise"
         THEN approx_pmf_ctx("raise", prec, comp, rep)
         ELSE sum_degenerate_ctx(approx_pmf_ctx("value", prec, comp, rep), rep)
    ELSE IF bool_has_terms /\ sum.kind = "raise"
    THEN approx_pmf_ctx("raise", prec, comp, comp)
    ELSE sum_walk_ctx(approx_pmf_ctx("value", prec, comp, comp), bool_has_terms,
                      comp, rep)

\* approx_lanczos_* and approx_spouge_* of the tails: the summations run
\* inside a local context set to comp, the second one when the first is
\* not the tail asked for and is not below one half; "one - tail" runs in
\* the context the first summation left; the result is rounded inside a
\* second local context set to rep.  first and second are what the
\* summations give, first_ctx and second_ctx their effects.
approx_tail_ctx(prec, first, first_ctx, bool_runs_second, second, second_ctx, rep) ==
    [exit |-> after_localcontext(after_localcontext(prec, first_ctx.exit), rep),
     used |-> first_ctx.used
              \cup (IF first.kind = "value" /\ bool_runs_second
                    THEN second_ctx.used ELSE {})
              \cup (IF first.kind = "value"
                       /\ (~bool_runs_second \/ second.kind = "value")
                    THEN {first_ctx.exit, rep} ELSE {})]

\* the effect of the approximate evaluator of the tail mode ("cdf", "sf" or
\* "min") for a query
approx_tail_evaluator_ctx(k, M, n, N, half_b, mode, int_coeffs, prec, comp, rep) ==
    approx_tail_ctx(
        prec,
        approx_sum_hypergeom_pmfs(k, M, n, N, half_b, k <= n - k, int_coeffs),
        approx_sum_ctx(approx_sum_hypergeom_pmfs(k, M, n, N, half_b, k <= n - k,
                                                 int_coeffs),
                       comp, sum_is_degenerate(k, M, n, N, half_b),
                       sum_walk_has_terms(k, n, half_b, k <= n - k), comp, rep),
        /\ mode # (IF k <= n - k THEN "cdf" ELSE "sf")
        /\ ~approx_first_below_half(
                approx_sum_hypergeom_pmfs(k, M, n, N, half_b, k <= n - k, int_coeffs),
                k, M, n, N, half_b, k <= n - k),
        approx_sum_hypergeom_pmfs(k, M, n, N, half_b, ~(k <= n - k), int_coeffs),
        approx_sum_ctx(approx_sum_hypergeom_pmfs(k, M, n, N, half_b, ~(k <= n - k),
                                                 int_coeffs),
                       rep, sum_is_degenerate(k, M, n, N, half_b),
                       sum_walk_has_terms(k, n, half_b, ~(k <= n - k)), comp, rep),
        rep)

\* approx_pi(digits): "getcontext().prec = digits + 2", digits + 1 terms of
\* the series, "getcontext().prec = digits" and "pi = +pi".  Setting the
\* precision to a number below 1 raises ValueError.
approx_pi(digits) ==
    [kind |-> IF digits < 1 THEN "raise" ELSE "value", val |-> NoVal]

approx_pi_ctx(prec, digits) ==
    IF digits + 2 < 1 THEN [exit |-> prec, used |-> {}]
    ELSE IF digits < 1
    THEN [exit |-> digits + 2,
          used |-> IF digits + 1 > 0 THEN {digits + 2} ELSE {}]
    ELSE [exit |-> digits, used |-> {digits + 2, digits}]

\* _sum_taylor_normal_cdf_terms, which normal_taylor_hypergeom_cdf, _sf and
\* normal_approx_hypergeom_cdf, _sf return: in a local context set to comp
\* it returns at once for a query that is not valid and for one whose tail
\* is trivial, and else calls approx_pi(comp) and computes the series
\* (bool_series); after the block the current context is set to rep and the
\* result is rounded in it
normal_taylor_ctx(prec, bool_series, comp, rep) ==
    [exit |-> rep,
     used |-> IF bool_series
              THEN approx_pi_ctx(comp, comp).used \cup {comp, rep}
              ELSE {rep}]

\* normal_taylor_hypergeom_min_cdf_sf and normal_approx_hypergeom_min_cdf_sf
\* call it inside a local context, with the boundary halved, and round the
\* result inside a second local context set to rep; the NaN of a query that
\* is not valid raises at "cdf < half"
normal_taylor_min_ctx(prec, bool_series, comp, rep) ==
    [exit |-> after_localcontext(after_localcontext(prec, rep), rep),
     used |-> normal_taylor_ctx(comp, bool_series, comp, rep).used]

\* a facade that dispatches to nothing, or whose selector raised; and an
\* evaluator of scipy that works on floats
no_dispatch_ctx(prec) == [exit |-> prec, used |-> {}]

\* the context effect of custom_hypergeom_pmf with the selector's choice alg
pmf_dispatch_ctx(kind, alg, prec, comp, rep) ==
    IF alg = 0 THEN exact_hypergeom_pmf_ctx(prec, comp, rep)
    ELSE IF alg \in {1, 2} THEN approx_pmf_ctx(kind, prec, comp, rep)
    ELSE IF alg = 4 THEN scipy_ctx(prec, rep)
    ELSE no_dispatch_ctx(prec)

\* of custom_hypergeom_cdf and custom_hypergeom_sf, kind being the kind of
\* the facade's result and exact_ctx, approx_ctx and normal_ctx the effects
\* of the evaluators of the exact, the approximate and the normal algorithm
tail_dispatch_ctx(kind, alg, exact_ctx, approx_ctx, normal_ctx, prec, comp, rep) ==
    IF kind = "none" \/ alg = SELECTOR_RAISED THEN no_dispatch_ctx(prec)
    ELSE IF alg = 0 THEN exact_ctx
    ELSE IF alg \in {1, 2} THEN approx_ctx
    ELSE IF alg = 3 THEN normal_ctx
    ELSE scipy_ctx(prec, rep)

\* of custom_hypergeom_min_cdf_sf
min_cdf_sf_dispatch_ctx(kind, alg, exact_ctx, approx_ctx, normal_ctx, prec, comp, rep) ==
    IF kind = "none" \/ alg = SELECTOR_RAISED THEN no_dispatch_ctx(prec)
    ELSE IF alg = 0 THEN exact_ctx
    ELSE IF alg \in {1, 2} THEN approx_ctx
    ELSE IF alg = 3 THEN normal_ctx
    ELSE scipy_ctx(prec, rep)

(***************************************************************************)
(* The evaluators of the normal approximation called directly.  Their      *)
(* values are not computed here (NoVal) except where the code returns a    *)
(* constant.                                                               *)
(***************************************************************************)

\* normal_approx_hypergeom_pmf: inside its "with localcontext()" block
\* Decimal(N) / Decimal(M) raises for M = 0, and ctx.sqrt(n * p * q) for a
\* negative n * p * q (n * N * (M - N) < 0 for M > 0)
normal_approx_pmf_raises(M, n, N) == M = 0 \/ n * N * (M - N) < 0

normal_approx_hypergeom_pmf(k, M, n, N) ==
    [kind |-> IF normal_approx_pmf_raises(M, n, N) THEN "raise" ELSE "value",
     val |-> NoVal]

\* approx_pi(comp) is called first in the block; an exception leaves the
\* block before "getcontext().prec = ..." is reached, a return passes
\* through that statement and "+ret_val"
normal_approx_pmf_ctx(kind, prec, comp, rep) ==
    IF kind = "raise"
    THEN [exit |-> after_localcontext(prec, comp),
          used |-> approx_pi_ctx(comp, comp).used \cup {comp}]
    ELSE [exit |-> rep, used |-> approx_pi_ctx(comp, comp).used \cup {comp, rep}]

\* the first branch of _sum_taylor_normal_cdf_terms after the test of the
\* query, which returns one for the CDF and zero for the SF when the
\* boundary is not halved
normal_cdf_is_trivial(k, M, n, N, half_b) ==
    (M = n \/ M = N \/ N = k \/ n = 0 \/ N = 0) /\ ~half_b

\* the series is computed
normal_cdf_has_series(k, M, n, N, half_b) ==
    ValidQuery(k, M, n, N) /\ ~normal_cdf_is_trivial(k, M, n, N, half_b)

\* normal_approx_hypergeom_cdf: NaN for a query that is not valid
normal_approx_hypergeom_cdf(k, M, n, N, half_b) ==
    [kind |-> "value",
     val |-> IF ~ValidQuery(k, M, n, N) THEN DecNaN
             ELSE IF normal_cdf_is_trivial(k, M, n, N, half_b) THEN DecOne
             ELSE NoVal]

\* normal_approx_hypergeom_sf
normal_approx_hypergeom_sf(k, M, n, N, half_b) ==
    [kind |-> "value",
     val |-> IF ~ValidQuery(k, M, n, N) THEN DecNaN
             ELSE IF normal_cdf_is_trivial(k, M, n, N, half_b) THEN DecZero
             ELSE NoVal]

\* the precisions of the caller's context when an operation is called: the
\* default of the decimal module, and the one a preceding call of the
\* engine may have left
AmbientPrecisions == {28, INT_DECIMAL_REPORTING_PRECISION}

(***************************************************************************)
(* The Taylor-series loop of _sum_taylor_normal_cdf_terms (the branch      *)
(* that is not bool_numerical_approximation, -11 <= z <= 11).  The loop    *)
(* works on z, which the code computes from the query with a square root;  *)
(* z is an input here, a rational.  err_toler is                           *)
(* 10 ** (-min(computational precision, reporting precision) / 2), a       *)
(* rational when the smaller precision is even.  The record of the loop    *)
(* holds its variables, the number of iterations made (iters) and pc:      *)
(* "idle" before the call, "loop" at the loop's test, "done" after it.     *)
(***************************************************************************)
RECURSIVE IntPow(_, _)
IntPow(b, e) == IF e = 0 THEN 1 ELSE b * IntPow(b, e - 1)

\* ctx.power(x, e) for an integer e >= 0
RPow(x, e) == <<IntPow(x[1], e), IntPow(x[2], e)>>

\* ctx.abs(x)
RAbs(x) == <<Abs(x[1]), x[2]>>

\* err_toler for min(int_decimal_computational_precision,
\* int_decimal_reporting_precision) = int_min_precision, an even number
err_toler(int_min_precision) == <<1, IntPow(10, int_min_precision \div 2)>>

\* the assignments that precede the loop
taylor_init(z, toler) ==
    [pc |-> "loop", z |-> z, err_toler |-> toler,
     integral |-> RAbs(z), curr_pow |-> 2, cum_pow |-> -2,
     prev_adj |-> RMul(<<-1, 1>>, RPow(RAbs(z), 0 + 1)), iters |-> 0]

\* the test of the while loop: ctx.abs(prev_adj) >= err_toler
taylor_loop_test(t) == RLe(t.err_toler, RAbs(t.prev_adj))

\* prev_adj = prev_coeff * ctx.power(ctx.abs(z), curr_pow + one), where
\* prev_coeff = one / (cum_pow * (curr_pow + one))
taylor_next_adj(t) ==
    RMul(RDivInt(One, t.cum_pow * (t.curr_pow + 1)), RPow(RAbs(t.z), t.curr_pow + 1))

\* the body of the loop, prev_adj being the new term
taylor_body(t, prev_adj) ==
    [t EXCEPT !.prev_adj = prev_adj,
              !.integral = RAdd(t.integral, prev_adj),
              !.curr_pow = t.curr_pow + 2,
              !.cum_pow = t.cum_pow * (0 - (t.curr_pow + 2)),
              !.iters = t.iters + 1]

\* the values of z and of the smaller precision the loop is run with
TaylorZs ==
    {<<0, 1>>, <<1, 4>>, <<-1, 4>>, <<1, 3>>, <<-1, 3>>, <<1, 2>>, <<-1, 2>>,
     <<2, 3>>, <<-2, 3>>, <<1, 1>>, <<-1, 1>>, <<2, 1>>, <<-2, 1>>}
TaylorPrecisions == {2, 4, 6}

(***************************************************************************)
(* split_float and the statements that lead to it.  The values handed to   *)
(* split_float are not negative.  str_coefficient is kept as its P + 1     *)
(* digits (one before the point); flt_coefficient is float() of that       *)
(* string, which is 0 exactly when all the digits are 0.  Python's         *)
(* integers are unbounded: int_exponent is kept as its sign and its        *)
(* decimal digits, most significant first, <<0>> for 0.                    *)
(***************************************************************************)
\* the Python int of the integer i
py_int(i) == [neg |-> i < 0, digits |-> IF i = 0 THEN <<0>> ELSE int_digits(Abs(i))]

\* x + y for the digits of two natural numbers
py_digits_add(x, y) ==
    digits_add(Zeros(max(Len(x), Len(y)) - Len(x)) \o x,
               Zeros(max(Len(x), Len(y)) - Len(y)) \o y, max(Len(x), Len(y)), 0)

\* sys.maxsize: 2 ** 63 - 1 = 9223372036854775807
sys_maxsize == <<9, 2, 2, 3, 3, 7, 2, 0, 3, 6, 8, 5, 4, 7, 7, 5, 8, 0, 7>>

\* -(sys.maxsize * 2 + 1) = -18446744073709551615
int_exponent_of_zero_or_nan ==
    [neg |-> TRUE, digits |-> py_digits_add(py_digits_add(sys_maxsize, sys_maxsize), <<1>>)]

\* the two strings of ("{:." + str_int_precision + "E}").format(number)
\* for the rounded coefficient r: str_coefficient and str_exponent
format_E_of(r, int_precision) ==
    [str_coefficient |-> Pad(r.digits, int_precision + 1),
     str_exponent |-> r.exp + Len(r.digits) - 1]

\* Decimal.__format__ rounds the coefficient to int_precision + 1 digits;
\* a zero is not rounded and its point is placed int_precision digits
\* before the end of the coefficient "0", so that the exponent printed is
\* number.exp + int_precision ("0.0000000000000000E+16" for Decimal(0))
format_E(number, int_precision) ==
    IF AllZero(number.digits)
    THEN [str_coefficient |-> Zeros(int_precision + 1),
          str_exponent |-> number.exp + int_precision]
    ELSE format_E_of(round_digits(number.digits, number.exp, int_precision + 1),
                     int_precision)

split_float_without_zero_test(number, int_precision) ==
    IF number.nan
    THEN [nan |-> TRUE, coefficient |-> <<0>>, exponent |-> int_exponent_of_zero_or_nan]
    ELSE [nan |-> FALSE,
          coefficient |-> format_E(number, int_precision).str_coefficient,
          exponent |-> py_int(format_E(number, int_precision).str_exponent)]

\* split_float(number, str_int_precision)
split_float(number, int_precision) ==
    IF number.nan
    THEN [nan |-> TRUE, coefficient |-> <<0>>, exponent |-> int_exponent_of_zero_or_nan]
    ELSE [nan |-> FALSE,
          coefficient |-> format_E(number, int_precision).str_coefficient,
          exponent |-> IF AllZero(format_E(number, int_precision).str_coefficient)
                       THEN int_exponent_of_zero_or_nan
                       ELSE py_int(format_E(number, int_precision).str_exponent)]

\* The end of an evaluator called with the split flag: the value is rounded
\* in a context of the call's reporting precision and handed to
\* split_float(number = value), whose str_int_precision keeps its default,
\* str(INT_DECIMAL_REPORTING_PRECISION).
report_split(value, int_decimal_reporting_precision) ==
    split_float(decimal_plus(value, int_decimal_reporting_precision),
                INT_DECIMAL_REPORTING_PRECISION)

\* values an evaluator hands over: n nines, n threes, n - 1 sixes and a
\* seven, each after the point, and 0.45, 1, 0 and NaN
MaxDigits == 19
Nines(n) == [i \in 1..n |-> 9]
Threes(n) == [i \in 1..n |-> 3]
SixesSeven(n) == [i \in 1..n |-> IF i = n THEN 7 ELSE 6]
SplitValues ==
    {Dec(Nines(n), 0 - n) : n \in 1..MaxDigits}
    \cup {Dec(Threes(n), 0 - n) : n \in 1..MaxDigits}
    \cup {Dec(SixesSeven(n), 0 - n) : n \in 1..MaxDigits}
    \cup {Dec(<<4, 5>>, -2), Dec(<<1>>, 0), Dec(<<0>>, 0), DecNaN}

\* the reporting precisions an evaluator is called with
ReportingPrecisions == {4, INT_DECIMAL_REPORTING_PRECISION, 18}

(***************************************************************************)
(* State.  One call is made per behaviour: q is the query drawn at the     *)
(* start, call is the operation applied to it with its arguments ("none"   *)
(* before the call; call.prec is the precision of the caller's decimal     *)
(* context when the call is made), ret what the operation returned and     *)
(* prec the precision of the caller's decimal context, used the            *)
(* precisions at which the arithmetic of the call ran.  The precisions     *)
(* passed to the operations are the defaults.  taylor is the record of the *)
(* Taylor-series loop.                                                     *)
(***************************************************************************)
VARIABLES q, call, ret, prec, used, taylor

vars == <<q, call, ret, prec, used, taylor>>

NoTaylor == [pc |-> "idle"]

NoCall == [op |-> "none", half |-> FALSE, cdf |-> FALSE, cfg |-> <<>>, digits |-> 0,
           prec |-> 0]
NoRet == [kind |-> "none"]

Init ==
    /\ q \in Queries
    /\ call = NoCall
    /\ ret = NoRet
    /\ prec \in AmbientPrecisions
    /\ used = {}
    /\ taylor = NoTaylor

\* the context effect of the exact tail evaluator that took the branch
\* path, entered at the precision p
ExactTailCtx(p, path, half_b) ==
    exact_tail_ctx(p, sum_is_degenerate(q[1], q[2], q[3], q[4], half_b),
                   sum_walk_has_terms(q[1], q[3], half_b, FALSE),
                   path, INT_DECIMAL_COMPUTATIONAL_PRECISION,
                   INT_DECIMAL_REPORTING_PRECISION)

\* the context effect of the approximate evaluator of a tail, entered at
\* the precision p: int_enum_algorithm 1 is Lanczos with 13 coefficients,
\* 2 is Spouge with 20
ApproxTailCtx(p, mode, half_b, int_enum_algorithm) ==
    approx_tail_evaluator_ctx(q[1], q[2], q[3], q[4], half_b, mode,
                              IF int_enum_algorithm = 1 THEN 13 ELSE 20,
                              p, INT_DECIMAL_COMPUTATIONAL_PRECISION,
                              INT_DECIMAL_REPORTING_PRECISION)

\* the context effect of the evaluators of the normal approximation
NormalTaylorCtx(p, half_b) ==
    normal_taylor_ctx(p, normal_cdf_has_series(q[1], q[2], q[3], q[4], half_b),
                      INT_DECIMAL_COMPUTATIONAL_PRECISION,
                      INT_DECIMAL_REPORTING_PRECISION)

NormalTaylorMinCtx(p) ==
    normal_taylor_min_ctx(p, normal_cdf_has_series(q[1], q[2], q[3], q[4], TRUE),
                          INT_DECIMAL_COMPUTATIONAL_PRECISION,
                          INT_DECIMAL_REPORTING_PRECISION)

\* the context effect of the operation op, called with the arguments args,
\* that returned res, when it is entered at the precision p
CallCtxOf(op, args, res, half_b, p) ==
    IF op = "exact_pmf"
    THEN exact_hypergeom_pmf_ctx(p, INT_DECIMAL_COMPUTATIONAL_PRECISION,
                                 INT_DECIMAL_REPORTING_PRECISION)
    ELSE IF op = "sum"
    THEN sum_hypergeom_pmfs_ctx(p, sum_is_degenerate(q[1], q[2], q[3], q[4], half_b),
                                sum_walk_has_terms(q[1], q[3], half_b,
                                                   res.branch = "cdf_walk"),
                                INT_DECIMAL_COMPUTATIONAL_PRECISION,
                                INT_DECIMAL_REPORTING_PRECISION)
    ELSE IF op \in {"exact_cdf", "exact_sf", "exact_min"}
    THEN ExactTailCtx(p, res.path, half_b)
    ELSE IF op = "custom_pmf"
    THEN pmf_dispatch_ctx(res.kind, res.alg, p, INT_DECIMAL_COMPUTATIONAL_PRECISION,
                          INT_DECIMAL_REPORTING_PRECISION)
    ELSE IF op = "custom_min"
    THEN min_cdf_sf_dispatch_ctx(res.kind, res.alg, ExactTailCtx(p, res.path, half_b),
                                 ApproxTailCtx(p, "min", half_b, res.alg),
                                 NormalTaylorMinCtx(p),
                                 p, INT_DECIMAL_COMPUTATIONAL_PRECISION,
                                 INT_DECIMAL_REPORTING_PRECISION)
    ELSE IF op \in {"custom_cdf", "custom_sf"}
    THEN tail_dispatch_ctx(res.kind, res.alg, ExactTailCtx(p, res.path, half_b),
                           ApproxTailCtx(p, IF op = "custom_cdf" THEN "cdf" ELSE "sf",
                                         half_b, res.alg),
                           NormalTaylorCtx(p, half_b),
                           p, INT_DECIMAL_COMPUTATIONAL_PRECISION,
                           INT_DECIMAL_REPORTING_PRECISION)
    ELSE IF op = "normal_approx_pmf"
    THEN normal_approx_pmf_ctx(res.kind, p, INT_DECIMAL_COMPUTATIONAL_PRECISION,
                               INT_DECIMAL_REPORTING_PRECISION)
    ELSE IF op \in {"normal_approx_cdf", "normal_approx_sf"}
    THEN NormalTaylorCtx(p, half_b)
    ELSE approx_pi_ctx(p, args.digits)

CallCtx(args, res, p) == CallCtxOf(args.op, args, res, args.half, p)

\* the precisions a call names: approx_pi(digits) computes with two digits
\* more than it returns; the evaluators are called with the computational
\* and the reporting precision, and the evaluators of the normal
\* approximation call approx_pi with the computational one
CallPrecisions(args) ==
    IF args.op = "approx_pi"
    THEN {args.digits, args.digits + 2}
    ELSE {INT_DECIMAL_COMPUTATIONAL_PRECISION, INT_DECIMAL_COMPUTATIONAL_PRECISION + 2,
          INT_DECIMAL_REPORTING_PRECISION}

\* the effect of the call on the caller's context, and the precisions at
\* which its arithmetic ran
ContextAfter(ctx) ==
    /\ prec' = ctx.exit
    /\ used' = ctx.used

\* exact_hypergeom_pmf(k, M, n, N)
ExactPmf ==
    /\ call.op = "none"
    /\ call' = [NoCall EXCEPT !.op = "exact_pmf", !.prec = prec]
    /\ ret' = [kind |-> "value"] @@
              exact_hypergeom_pmf_run(q[1], q[2], q[3], q[4])
    /\ ContextAfter(CallCtx(call', ret', prec))
    /\ UNCHANGED <<q, taylor>>

\* _sum_hypergeom_pmfs(k, M, n, N, half, cdf-or-sf)
SumHypergeomPmfs ==
    /\ call.op = "none"
    /\ \E half_b \in BOOLEAN, cdf_b \in BOOLEAN :
        /\ call' = [NoCall EXCEPT !.op = "sum", !.half = half_b, !.cdf = cdf_b,
                                  !.prec = prec]
        /\ ret' = [kind |-> "value"] @@
                  sum_hypergeom_pmfs_run(q[1], q[2], q[3], q[4], half_b, cdf_b)
        /\ ContextAfter(CallCtx(call', ret', prec))
    /\ UNCHANGED <<q, taylor>>

\* exact_hypergeom_cdf(k, M, n, N, half)
ExactCdf ==
    /\ call.op = "none"
    /\ \E half_b \in BOOLEAN :
        /\ call' = [NoCall EXCEPT !.op = "exact_cdf", !.half = half_b, !.prec = prec]
        /\ ret' = [kind |-> "value"] @@
                  exact_hypergeom_cdf_run(q[1], q[2], q[3], q[4], half_b)
        /\ ContextAfter(CallCtx(call', ret', prec))
    /\ UNCHANGED <<q, taylor>>

\* exact_hypergeom_sf(k, M, n, N, half)
ExactSf ==
    /\ call.op = "none"
    /\ \E half_b \in BOOLEAN :
        /\ call' = [NoCall EXCEPT !.op = "exact_sf", !.half = half_b, !.prec = prec]
        /\ ret' = [kind |-> "value"] @@
                  exact_hypergeom_sf_run(q[1], q[2], q[3], q[4], half_b)
        /\ ContextAfter(CallCtx(call', ret', prec))
    /\ UNCHANGED <<q, taylor>>

\* exact_hypergeom_min_cdf_sf(k, M, n, N)
ExactMinCdfSf ==
    /\ call.op = "none"
    /\ call' = [NoCall EXCEPT !.op = "exact_min", !.half = TRUE, !.prec = prec]
    /\ ret' = [kind |-> "value"] @@
              exact_hypergeom_min_cdf_sf_run(q[1], q[2], q[3], q[4])
    /\ ContextAfter(CallCtx(call', ret', prec))
    /\ UNCHANGED <<q, taylor>>

\* custom_hypergeom_pmf(k, M, n, N, budgets)
CustomPmf ==
    /\ call.op = "none"
    /\ \E cfg \in Configs :
        /\ call' = [NoCall EXCEPT !.op = "custom_pmf", !.cfg = cfg, !.prec = prec]
        /\ ret' = custom_hypergeom_pmf(q[1], q[2], q[3], q[4], cfg)
        /\ ContextAfter(CallCtx(call', ret', prec))
    /\ UNCHANGED <<q, taylor>>

\* custom_hypergeom_cdf(k, M, n, N, half, budgets)
CustomCdf ==
    /\ call.op = "none"
    /\ \E half_b \in BOOLEAN, cfg \in Configs :
        /\ call' = [NoCall EXCEPT !.op = "custom_cdf", !.half = half_b, !.cfg = cfg,
                                  !.prec = prec]
        /\ ret' = custom_hypergeom_cdf(q[1], q[2], q[3], q[4], half_b, cfg)
        /\ ContextAfter(CallCtx(call', ret', prec))
    /\ UNCHANGED <<q, taylor>>

\* custom_hypergeom_sf(k, M, n, N, half, budgets)
CustomSf ==
    /\ call.op = "none"
    /\ \E half_b \in BOOLEAN, cfg \in Configs :
        /\ call' = [NoCall EXCEPT !.op = "custom_sf", !.half = half_b, !.cfg = cfg,
                                  !.prec = prec]
        /\ ret' = custom_hypergeom_sf(q[1], q[2], q[3], q[4], half_b, cfg)
        /\ ContextAfter(CallCtx(call', ret', prec))
    /\ UNCHANGED <<q, taylor>>

\* custom_hypergeom_min_cdf_sf(k, M, n, N, budgets)
CustomMinCdfSf ==
    /\ call.op = "none"
    /\ \E cfg \in Configs :
        /\ call' = [NoCall EXCEPT !.op = "custom_min", !.half = TRUE, !.cfg = cfg,
                                  !.prec = prec]
        /\ ret' = custom_hypergeom_min_cdf_sf(q[1], q[2], q[3], q[4], cfg)
        /\ ContextAfter(CallCtx(call', ret', prec))
    /\ UNCHANGED <<q, taylor>>

\* normal_approx_hypergeom_pmf(k, M, n, N)
NormalApproxPmf ==
    /\ call.op = "none"
    /\ call' = [NoCall EXCEPT !.op = "normal_approx_pmf", !.prec = prec]
    /\ ret' = normal_approx_hypergeom_pmf(q[1], q[2], q[3], q[4])
    /\ ContextAfter(CallCtx(call', ret', prec))
    /\ UNCHANGED <<q, taylor>>

\* normal_approx_hypergeom_cdf(k, M, n, N, half)
NormalApproxCdf ==
    /\ call.op = "none"
    /\ \E half_b \in BOOLEAN :
        /\ call' = [NoCall EXCEPT !.op = "normal_approx_cdf", !.half = half_b,
                                  !.prec = prec]
        /\ ret' = normal_approx_hypergeom_cdf(q[1], q[2], q[3], q[4], half_b)
        /\ ContextAfter(CallCtx(call', ret', prec))
    /\ UNCHANGED <<q, taylor>>

\* normal_approx_hypergeom_sf(k, M, n, N, half)
NormalApproxSf ==
    /\ call.op = "none"
    /\ \E half_b \in BOOLEAN :
        /\ call' = [NoCall EXCEPT !.op = "normal_approx_sf", !.half = half_b,
                                  !.prec = prec]
        /\ ret' = normal_approx_hypergeom_sf(q[1], q[2], q[3], q[4], half_b)
        /\ ContextAfter(CallCtx(call', ret', prec))
    /\ UNCHANGED <<q, taylor>>

\* the numbers of digits approx_pi is called with
PiDigits == {-2, -1, 0, 1, 5, INT_DECIMAL_REPORTING_PRECISION,
             INT_DECIMAL_COMPUTATIONAL_PRECISION}

\* approx_pi(digits)
ApproxPi ==
    /\ call.op = "none"
    /\ \E digits \in PiDigits :
        /\ call' = [NoCall EXCEPT !.op = "approx_pi", !.digits = digits, !.prec = prec]
        /\ ret' = approx_pi(digits)
        /\ ContextAfter(CallCtx(call', ret', prec))
    /\ UNCHANGED <<q, taylor>>

Next ==
    \/ ExactPmf
    \/ SumHypergeomPmfs
    \/ ExactCdf
    \/ ExactSf
    \/ ExactMinCdfSf
    \/ CustomPmf
    \/ CustomCdf
    \/ CustomSf
    \/ CustomMinCdfSf
    \/ NormalApproxPmf
    \/ NormalApproxCdf
    \/ NormalApproxSf
    \/ ApproxPi

Spec == Init /\ [][Next]_vars

\* the operations called with any query, valid or not
InitAll ==
    /\ q \in AllQueries
    /\ call = NoCall
    /\ ret = NoRet
    /\ prec \in AmbientPrecisions
    /\ used = {}
    /\ taylor = NoTaylor

SpecAll == InitAll /\ [][Next]_vars

\* the Taylor-series loop is entered with z and the tolerance
TaylorEnter ==
    /\ call.op = "none"
    /\ taylor.pc = "idle"
    /\ \E z \in TaylorZs, int_min_precision \in TaylorPrecisions :
        taylor' = taylor_init(z, err_toler(int_min_precision))
    /\ call' = [NoCall EXCEPT !.op = "taylor", !.prec = prec]
    /\ UNCHANGED <<q, ret, prec, used>>

\* one iteration of the loop
TaylorIterate ==
    /\ taylor.pc = "loop"
    /\ taylor_loop_test(taylor)
    /\ taylor' = taylor_body(taylor, taylor_next_adj(taylor))
    /\ UNCHANGED <<q, call, ret, prec, used>>

\* the loop's test fails: the statements after the loop run
TaylorExit ==
    /\ taylor.pc = "loop"
    /\ ~taylor_loop_test(taylor)
    /\ taylor' = [taylor EXCEPT !.pc = "done"]
    /\ UNCHANGED <<q, call, ret, prec, used>>

NextTaylor ==
    \/ TaylorEnter
    \/ TaylorIterate
    \/ TaylorExit

\* the loop alone, for one valid query
InitTaylor ==
    /\ q = <<0, 2, 1, 1>>
    /\ call = NoCall
    /\ ret = NoRet
    /\ prec \in AmbientPrecisions
    /\ used = {}
    /\ taylor = NoTaylor

SpecTaylor == InitTaylor /\ [][NextTaylor]_vars

\* an evaluator called with bool_split_into_coeff_and_base_ten_exponent
\* returns: call.value is its value before the last rounding, call.rep its
\* int_decimal_reporting_precision, ret.number the value split_float gets
ReportSplit ==
    /\ call.op = "none"
    /\ \E value \in SplitValues, int_rep \in ReportingPrecisions :
        /\ call' = [value |-> value, rep |-> int_rep] @@
                   [NoCall EXCEPT !.op = "split", !.prec = prec]
        /\ ret' = [kind |-> "value", number |-> decimal_plus(value, int_rep)] @@
                  report_split(value, int_rep)
    /\ UNCHANGED <<q, prec, used, taylor>>

NextSplit == ReportSplit

\* the split alone, for one valid query
InitSplit ==
    /\ q = <<0, 2, 1, 1>>
    /\ call = NoCall
    /\ ret = NoRet
    /\ prec \in AmbientPrecisions
    /\ used = {}
    /\ taylor = NoTaylor

SpecSplit == InitSplit /\ [][NextSplit]_vars

\* the context effect of compute_outlier_score_for_choice that returned res:
\* without bool_use_decimal_type scipy_hypergeom_min_cdf_sf works on floats,
\* as it does for the benchmark score
score_ctx(res, p) ==
    IF res.engine = "custom_hypergeom_min_cdf_sf"
    THEN CallCtxOf("custom_min", NoCall, res, TRUE, p)
    ELSE no_dispatch_ctx(p)

\* compute_outlier_score_for_choice(k, M, n, N, bool_use_decimal_type, budgets)
ComputeOutlierScoreForChoice ==
    /\ call.op = "none"
    /\ \E bool_use_decimal_type \in BOOLEAN, cfg \in Configs :
        /\ call' = [decimal |-> bool_use_decimal_type] @@
                   [NoCall EXCEPT !.op = "outlier_score", !.half = TRUE, !.cfg = cfg,
                                  !.prec = prec]
        /\ ret' = compute_outlier_score_for_choice(q[1], q[2], q[3], q[4],
                                                   bool_use_decimal_type, cfg)
        /\ ContextAfter(score_ctx(ret', prec))
    /\ UNCHANGED <<q, taylor>>

NextScore == ComputeOutlierScoreForChoice

\* the score is asked for any query, valid or not
SpecScore == InitAll /\ [][NextScore]_vars

(***************************************************************************)
(* One PMF term step by step: the range lists are built, simplified stage  *)
(* by stage and evaluated iteration by iteration.  While the simplifier    *)
(* runs ret holds the lists as built (f0), the lists now (f), the stages   *)
(* done and whether every search so far found a range that starts at 1;    *)
(* while the evaluator runs it holds the simplified lists (f), the cursors *)
(* and the accumulator (s), the loop the next iteration belongs to         *)
(* (phase), how often each integer was multiplied by (mult) and divided by *)
(* (div), and the branch the last iteration took (last); after the return  *)
(* it holds the returned value (val) as well.  The return is that of a     *)
(* call with the default reporting precision.  The evaluator is also       *)
(* called on range lists of its own, which need not start at 1 and need    *)
(* not have a quotient below 1.                                            *)
(***************************************************************************)
\* the indexes at which the exact evaluators build a PMF term for a query:
\* k, the first and the last index of the support
FractionIndexes(x) == {x[1], max(0, x[3] + x[4] - x[2]), min(x[3], x[4])}

\* the integers of the ranges of a query
RangeValues == 1..(MaxM + 1)

\* no integer counted, and one more of the integer v
NoCounts == [v \in RangeValues |-> 0]
CountOneMore(counts, v) == [counts EXCEPT ![v] = @ + 1]

\* the loop the next iteration belongs to
fraction_phase(s, num, den) ==
    IF s.ni <= Len(num) /\ s.di <= Len(den) THEN "interleave"
    ELSE IF s.ni <= Len(num) THEN "drain_num"
    ELSE IF s.di <= Len(den) THEN "drain_den"
    ELSE "done"

\* the largest integer of a range of a list passed directly
MaxRangeBound == 3

\* the ranges <<lower, upper>> of integers from 1 to MaxRangeBound with
\* lower <= upper, and the lists of one or two of them
ProperRanges == {r \in (1..MaxRangeBound) \X (1..MaxRangeBound) : r[1] <= r[2]}
RangeLists == {<<r>> : r \in ProperRanges} \cup (ProperRanges \X ProperRanges)

\* the operations that run _compute_fraction_for_hypergeom_pmf
FractionOps == {"fraction", "compute_fraction"}

\* mutant: the interleaved loop divides only above 2
fraction_step_divides_above_two(s, phase) ==
    (phase = "interleave" /\ RLt(<<2, 1>>, s.pmf)) \/ phase = "drain_den"

\* the iteration divides: the accumulator exceeds 1 in the interleaved
\* loop, or the denominator is drained
fraction_step_divides(s, phase) ==
    (phase = "interleave" /\ RLt(One, s.pmf)) \/ phase = "drain_den"

FractionEnter ==
    /\ call.op = "none"
    /\ \E i \in FractionIndexes(q) :
        /\ call' = [i |-> i] @@ [NoCall EXCEPT !.op = "fraction", !.prec = prec]
        /\ ret' = [kind |-> "simplify", stage |-> 0, found |-> TRUE,
                   f0 |-> [num |-> pmf_lst_lst_num(q[2], q[3], q[4]),
                           den |-> pmf_lst_lst_den(i, q[2], q[3], q[4])],
                   f |-> [num |-> pmf_lst_lst_num(q[2], q[3], q[4]),
                          den |-> pmf_lst_lst_den(i, q[2], q[3], q[4])]]
    /\ UNCHANGED <<q, prec, used, taylor>>

\* one cancellation stage of _simplify_fraction_for_hypergeom_pmf
SimplifyStage ==
    /\ call.op = "fraction"
    /\ ret.kind = "simplify"
    /\ ret.stage < min(Len(ret.f.num), Len(ret.f.den))
    /\ ret' = [ret EXCEPT !.stage = @ + 1,
                          !.found = @ /\ unit_ranges(ret.f.num) # {}
                                      /\ unit_ranges(ret.f.den) # {},
                          !.f = simplify_stage(ret.f)]
    /\ UNCHANGED <<q, call, prec, used, taylor>>

\* _compute_fraction_for_hypergeom_pmf is entered with the simplified lists
ComputeFractionEnter ==
    /\ call.op = "fraction"
    /\ ret.kind = "simplify"
    /\ ret.stage = min(Len(ret.f.num), Len(ret.f.den))
    /\ ret' = [kind |-> "compute", f |-> ret.f,
               s |-> compute_fraction_init(ret.f.num, ret.f.den),
               phase |-> fraction_phase(compute_fraction_init(ret.f.num, ret.f.den),
                                        ret.f.num, ret.f.den),
               mult |-> CountOneMore(NoCounts, ret.f.num[1][1]),
               div |-> CountOneMore(NoCounts, ret.f.den[1][1]),
               last |-> "init"]
    /\ ContextAfter(compute_fraction_loop_ctx(prec, INT_DECIMAL_COMPUTATIONAL_PRECISION))
    /\ UNCHANGED <<q, call, taylor>>

\* _compute_fraction_for_hypergeom_pmf(lst_lst_num, lst_lst_den) called on
\* range lists of its own.  The call does not read the query, so it is made
\* for one query only.
ComputeFractionCall ==
    /\ call.op = "none"
    /\ q = <<0, 1, 0, 0>>
    /\ \E lst_lst_num \in RangeLists, lst_lst_den \in RangeLists :
        /\ call' = [NoCall EXCEPT !.op = "compute_fraction", !.prec = prec]
        /\ ret' = [kind |-> "compute",
                   f |-> [num |-> lst_lst_num, den |-> lst_lst_den],
                   s |-> compute_fraction_init(lst_lst_num, lst_lst_den),
                   phase |-> fraction_phase(
                                 compute_fraction_init(lst_lst_num, lst_lst_den),
                                 lst_lst_num, lst_lst_den),
                   mult |-> CountOneMore(NoCounts, lst_lst_num[1][1]),
                   div |-> CountOneMore(NoCounts, lst_lst_den[1][1]),
                   last |-> "init"]
    /\ ContextAfter(compute_fraction_loop_ctx(prec, INT_DECIMAL_COMPUTATIONAL_PRECISION))
    /\ UNCHANGED <<q, taylor>>

\* one iteration of the loop the evaluator is in
ComputeFractionStep ==
    /\ call.op \in FractionOps
    /\ ret.kind = "compute"
    /\ ret.phase # "done"
    /\ IF fraction_step_divides(ret.s, ret.phase)
       THEN /\ ret' = [ret EXCEPT !.s = den_step(ret.s, ret.f.den),
                                  !.phase = fraction_phase(den_step(ret.s, ret.f.den),
                                                           ret.f.num, ret.f.den),
                                  !.div = IF den_step(ret.s, ret.f.den).di <= Len(ret.f.den)
                                          THEN CountOneMore(@, den_step(ret.s, ret.f.den).de)
                                          ELSE @,
                                  !.last = "divide"]
       ELSE /\ ret' = [ret EXCEPT !.s = num_step(ret.s, ret.f.num),
                                  !.phase = fraction_phase(num_step(ret.s, ret.f.num),
                                                           ret.f.num, ret.f.den),
                                  !.mult = IF num_step(ret.s, ret.f.num).ni <= Len(ret.f.num)
                                           THEN CountOneMore(@, num_step(ret.s, ret.f.num).ne)
                                           ELSE @,
                                  !.last = "multiply"]
    /\ UNCHANGED <<q, call, prec, used, taylor>>

\* the statements after the loops: the context is set to the reporting
\* precision and the accumulator is rounded in it
ComputeFractionReturn ==
    /\ call.op \in FractionOps
    /\ ret.kind = "compute"
    /\ ret.phase = "done"
    /\ ret' = [val |-> compute_fraction_return(ret.s, INT_DECIMAL_REPORTING_PRECISION).pmf]
               @@ [ret EXCEPT !.kind = "returned"]
    /\ ContextAfter(compute_fraction_ctx(prec, INT_DECIMAL_COMPUTATIONAL_PRECISION,
                                         INT_DECIMAL_REPORTING_PRECISION))
    /\ UNCHANGED <<q, call, taylor>>

NextFraction ==
    \/ FractionEnter
    \/ SimplifyStage
    \/ ComputeFractionEnter
    \/ ComputeFractionCall
    \/ ComputeFractionStep
    \/ ComputeFractionReturn

\* one PMF term of any valid query, the caller's precision being the default
InitFraction ==
    /\ q \in Queries
    /\ call = NoCall
    /\ ret = NoRet
    /\ prec = 28
    /\ used = {}
    /\ taylor = NoTaylor

SpecFraction == InitFraction /\ [][NextFraction]_vars

(***************************************************************************)
(* _sum_hypergeom_pmfs step by step, with and without                      *)
(* bool_numerical_approximation.  ret holds the branch taken, the index    *)
(* the summation started at (start), the index of the running term (i),    *)
(* the index the next iteration of the loop has (next), the running term   *)
(* (pmf), the running sum (sum), the calls of approx_hypergeom_pmf_inner   *)
(* (approx_calls) and the indexes they were made for (approx_at), the      *)
(* updates of the running term by the ratio recurrence (updates), whether  *)
(* an update divided by 0 (zero_div), and after the last iteration the     *)
(* returned value (val).  The running term and sum of a walk are at the    *)
(* computational precision (rationals), those of the degenerate branch and *)
(* the returned value at the reporting precision (Decimals).  The value of *)
(* the approximator is not computed: with bool_numerical_approximation     *)
(* every term and sum is NoVal.                                            *)
(***************************************************************************)
\* the first term of a walk: approx_hypergeom_pmf_inner or the exact PMF
boundary_term(i, M, n, N, bool_numerical_approximation) ==
    IF bool_numerical_approximation THEN NoVal ELSE walk_first_term(i, M, n, N)

\* the value returned by the branch that leaves the function with sum
sum_value_returned(branch, sum) ==
    IF branch = "degenerate"
    THEN sum_return(degenerate_rounded(sum)).val
    ELSE sum_return(walk_rounded([val |-> sum, loop_iters |-> 0], branch)).val

\* mutant: the first term is never halved
halve_term_never(pmf, bool_boundary, bool_numerical_approximation) == pmf

\* "pmf /= 2" on a term that may be the approximator's
halve_term_if(pmf, bool_boundary, bool_numerical_approximation) ==
    IF bool_numerical_approximation THEN NoVal ELSE halve_if(pmf, bool_boundary)

\* the calls of the approximator made for the first term of a branch
calls_for_boundary(bool_numerical_approximation) ==
    IF bool_numerical_approximation THEN 1 ELSE 0

\* mutant: the loops call the approximator for every term when it is enabled
loop_term_from_approximator_when_enabled(bool_numerical_approximation) ==
    bool_numerical_approximation

\* the loops produce the next term under "if True :", by the recurrence;
\* the call of the approximator above it is inside a string literal
loop_term_from_approximator(bool_numerical_approximation) == FALSE

\* the state of a branch before its loop
sum_start(branch, start, next, pc, pmf, sum, approx) ==
    [kind |-> "sum", branch |-> branch, start |-> start, i |-> start, next |-> next,
     pc |-> pc, pmf |-> pmf, sum |-> sum,
     approx_calls |-> calls_for_boundary(approx),
     approx_at |-> IF approx THEN {start} ELSE {},
     updates |-> 0, zero_div |-> FALSE,
     val |-> IF pc = "done" /\ ~approx THEN sum_value_returned(branch, sum) ELSE NoVal]

\* the degenerate branch: half_pmf is computed for the index k
sum_enter_degenerate(k, M, n, N, half_b, cdf_b, approx) ==
    sum_start("degenerate", k, k, "done",
              IF approx THEN NoVal ELSE half_of_exact_pmf(k, M, n, N),
              IF approx THEN NoVal ELSE sum_degenerate(k, M, n, N, half_b, cdf_b),
              approx)

\* the CDF branch up to its loop, pmf being the first term, halved if due
sum_enter_cdf_with(i_first, pmf, k, approx) ==
    sum_start("cdf_walk", i_first, i_first + 1,
              IF i_first + 1 <= k THEN "loop" ELSE "done",
              pmf, IF i_first <= k THEN pmf ELSE Zero, approx)

sum_enter_cdf(k, M, n, N, half_b, approx) ==
    sum_enter_cdf_with(max(0, n + N - M),
        halve_term_if(boundary_term(max(0, n + N - M), M, n, N, approx),
                      half_b /\ max(0, n + N - M) + 1 >= k + 1, approx),
        k, approx)

\* the SF branch up to its loop
sum_enter_sf_with(i_last, pmf, k, half_b, approx) ==
    sum_start("sf_walk", i_last, i_last - 1,
              IF i_last - 1 >= k THEN "loop" ELSE "done",
              pmf,
              IF i_last > k THEN pmf
              ELSE IF half_b /\ i_last = k THEN pmf
              ELSE Zero,
              approx)

sum_enter_sf(k, M, n, N, half_b, approx) ==
    sum_enter_sf_with(min(n, N),
        halve_term_if(boundary_term(min(n, N), M, n, N, approx),
                      half_b /\ min(n, N) - 1 <= k - 1, approx),
        k, half_b, approx)

\* the function up to the loop of the branch it takes
sum_enter(k, M, n, N, half_b, cdf_b, approx) ==
    IF sum_is_degenerate(k, M, n, N, half_b)
    THEN sum_enter_degenerate(k, M, n, N, half_b, cdf_b, approx)
    ELSE IF cdf_b
    THEN sum_enter_cdf(k, M, n, N, half_b, approx)
    ELSE IF ~half_b /\ k = n
    THEN [sum_start("sf_zero", k, k, "done", NoVal, Zero, FALSE)
             EXCEPT !.val = IF approx THEN NoVal ELSE DecZero]
    ELSE sum_enter_sf(k, M, n, N, half_b, approx)

\* mutant: the term of an iteration replaces the sum
sum_after_update_keeps_last_term(r, pmf, step, bool_more, divisor, approx) ==
    [r EXCEPT !.i = r.next, !.next = r.next + step,
              !.pc = IF bool_more THEN "loop" ELSE "done",
              !.pmf = pmf,
              !.sum = pmf,
              !.updates = @ + 1,
              !.val = IF bool_more \/ approx THEN NoVal
                      ELSE sum_value_returned(r.branch, pmf)]

\* the state after an iteration that produced the term pmf for the index
\* r.next, the loop going on while bool_more
sum_after_update(r, pmf, step, bool_more, divisor, approx) ==
    [r EXCEPT !.i = r.next, !.next = r.next + step,
              !.pc = IF bool_more THEN "loop" ELSE "done",
              !.pmf = pmf,
              !.sum = IF approx THEN NoVal ELSE RAdd(r.sum, pmf),
              !.approx_calls = @ + (IF loop_term_from_approximator(approx) THEN 1 ELSE 0),
              !.approx_at = IF loop_term_from_approximator(approx)
                            THEN @ \cup {r.next} ELSE @,
              !.updates = @ + 1,
              !.zero_div = @ \/ divisor = 0,
              !.val = IF bool_more \/ approx THEN NoVal
                      ELSE sum_value_returned(r.branch, RAdd(r.sum, pmf))]

\* the state after an iteration of the SF loop that skipped the index k
sum_after_skip(r, bool_more, approx) ==
    [r EXCEPT !.next = r.next - 1,
              !.pc = IF bool_more THEN "loop" ELSE "done",
              !.val = IF bool_more \/ approx THEN NoVal
                      ELSE sum_value_returned(r.branch, r.sum)]

\* one iteration of "for i in range(i_first+1, k+1, +1)"
sum_cdf_step(r, k, M, n, N, half_b, approx) ==
    sum_after_update(r,
        IF approx THEN NoVal
        ELSE halve_if(cdf_term_update(r.pmf, r.next, M, n, N), half_b /\ r.next = k),
        1, r.next + 1 <= k, (M - N - n + r.next) * r.next, approx)

\* one iteration of "for i in range(i_last-1, k-1, -1)"
sum_sf_step(r, k, M, n, N, half_b, approx) ==
    IF r.next > k \/ half_b
    THEN sum_after_update(r,
             IF approx THEN NoVal
             ELSE halve_if(sf_term_update(r.pmf, r.next, M, n, N), half_b /\ r.next = k),
             -1, r.next - 1 >= k, (n - r.next) * (N - r.next), approx)
    ELSE sum_after_skip(r, r.next - 1 >= k, approx)

\* the context of _sum_hypergeom_pmfs in the state r, the function being
\* entered at the precision p.  In its loop the first term has been
\* computed with comp as the reporting precision, which set the caller's
\* context to comp, and the local context of the loop is at comp; after the
\* loop, and on the branches without one, the effect is that of the whole
\* function.
sum_steps_ctx(r, bool_numerical_approximation, p, comp, rep) ==
    IF r.pc = "loop"
    THEN IF bool_numerical_approximation
         THEN approx_pmf_ctx("value", p, comp, comp)
         ELSE compute_fraction_ctx(p, comp, comp)
    ELSE IF bool_numerical_approximation
    THEN approx_sum_ctx([kind |-> "value"], p, r.branch = "degenerate",
                        r.branch # "sf_zero", comp, rep)
    ELSE sum_hypergeom_pmfs_ctx(p, r.branch = "degenerate", r.branch # "sf_zero",
                                comp, rep)

SumEnter ==
    /\ call.op = "none"
    /\ \E half_b \in BOOLEAN, cdf_b \in BOOLEAN, approx \in BOOLEAN :
        /\ call' = [approx |-> approx] @@
                   [NoCall EXCEPT !.op = "sum_steps", !.half = half_b, !.cdf = cdf_b,
                                  !.prec = prec]
        /\ ret' = sum_enter(q[1], q[2], q[3], q[4], half_b, cdf_b, approx)
        /\ ContextAfter(sum_steps_ctx(ret', approx, prec,
                                      INT_DECIMAL_COMPUTATIONAL_PRECISION,
                                      INT_DECIMAL_REPORTING_PRECISION))
    /\ UNCHANGED <<q, taylor>>

SumLoopStep ==
    /\ call.op = "sum_steps"
    /\ ret.pc = "loop"
    /\ ret' = IF call.cdf
              THEN sum_cdf_step(ret, q[1], q[2], q[3], q[4], call.half, call.approx)
              ELSE sum_sf_step(ret, q[1], q[2], q[3], q[4], call.half, call.approx)
    /\ ContextAfter(sum_steps_ctx(ret', call.approx, call.prec,
                                  INT_DECIMAL_COMPUTATIONAL_PRECISION,
                                  INT_DECIMAL_REPORTING_PRECISION))
    /\ UNCHANGED <<q, call, taylor>>

NextSum ==
    \/ SumEnter
    \/ SumLoopStep

SpecSum == InitFraction /\ [][NextSum]_vars

(***************************************************************************)
(* The cdf, sf and min(cdf, sf) evaluators, one summation at a time.       *)
(* int_alg is 0 for exact_hypergeom_*, 1 for approx_lanczos_hypergeom_*    *)
(* and 2 for approx_spouge_hypergeom_*.  call.want is the requested value: *)
(* "cdf", "sf" or "min".  ret holds the tails computed so far and, after   *)
(* the return, where the returned value came from:                         *)
(*   origin    "first_sum"  the tail summed first,                         *)
(*             "one_minus_first"  one - (the tail summed first),           *)
(*             "second_sum" the tail summed second,                        *)
(*             "min_of_both" min(cdf, sf) of two summed tails;             *)
(*   tail      the tail the returned value is, "cdf" or "sf";              *)
(*   from_one  whether the returned value was formed by a subtraction from *)
(*             1, in the evaluator or in the degenerate branch of the      *)
(*             summation.                                                  *)
(* The tails of the approximate evaluators are values of the log-Gamma     *)
(* approximation: any of ApproxTailValues of the exact tail.               *)
(***************************************************************************)
\* "if k <= (n - k)" of the approximate evaluators
approx_cdf_side_first(k, n) == k <= n - k

\* whether the evaluator int_alg sums the cdf first for the query x
cdf_summed_first(int_alg, x) ==
    IF int_alg = 0
    THEN cdf_side_is_cheaper(x[1], x[2], x[3], x[4])
    ELSE approx_cdf_side_first(x[1], x[3])

\* whether the degenerate branch forms the requested tail as
\* "cdf -= half_pmf" or "sf -= half_pmf" from Decimal(1)
sum_subtracts_from_one(x, half_b, bool_cdf) ==
    /\ sum_is_degenerate(x[1], x[2], x[3], x[4], half_b)
    /\ half_b
    /\ IF (x[2] - x[4]) = (x[3] - x[1]) THEN ~bool_cdf ELSE bool_cdf

\* the values an approximate summation may return for the exact tail v
ApproxTailValues(v) ==
    {v,
     clamp01(decimal_sub(v, Dec(<<1, 2, 5>>, -3), INT_DECIMAL_REPORTING_PRECISION)),
     clamp01(decimal_add(v, Dec(<<1, 2, 5>>, -3), INT_DECIMAL_REPORTING_PRECISION))}

\* the values _sum_hypergeom_pmfs may return to the evaluator int_alg
tail_values(int_alg, x, half_b, bool_cdf) ==
    IF int_alg = 0
    THEN {sum_hypergeom_pmfs(x[1], x[2], x[3], x[4], half_b, bool_cdf)}
    ELSE ApproxTailValues(sum_hypergeom_pmfs(x[1], x[2], x[3], x[4], half_b, bool_cdf))

\* mutant: the subtraction is made whatever the first tail
first_tail_below_half_untested(v) == TRUE

\* "if sf < half" / "if cdf < half"
first_tail_below_half(v) == below_half(v)

\* the evaluator after its first summation returned v
tails_after_first(x, half_b, bool_cdf_first, v) ==
    [kind |-> "tails", pc |-> "first",
     first |-> IF bool_cdf_first THEN "cdf" ELSE "sf",
     cdf |-> IF bool_cdf_first THEN v ELSE NoVal,
     sf |-> IF bool_cdf_first THEN NoVal ELSE v,
     sums |-> 1, origin |-> "none", tail |-> "none", from_one |-> FALSE,
     val |-> NoVal]

\* the tail summed first is the one to return
tails_return_first(r, x, half_b) ==
    [r EXCEPT !.pc = "done", !.origin = "first_sum", !.tail = r.first,
              !.from_one = sum_subtracts_from_one(x, half_b, r.first = "cdf"),
              !.val = IF r.first = "cdf" THEN r.cdf ELSE r.sf]

\* "cdf = one - sf" / "sf = one - cdf"
tails_return_one_minus_first(r) ==
    [r EXCEPT !.pc = "done", !.origin = "one_minus_first",
              !.tail = IF r.first = "cdf" THEN "sf" ELSE "cdf",
              !.from_one = TRUE,
              !.val = one_minus(IF r.first = "cdf" THEN r.cdf ELSE r.sf)]

\* the second summation returned v, which is the value to return
tails_return_second(r, x, half_b, v) ==
    [r EXCEPT !.pc = "done", !.origin = "second_sum",
              !.tail = IF r.first = "cdf" THEN "sf" ELSE "cdf",
              !.cdf = IF r.first = "cdf" THEN r.cdf ELSE v,
              !.sf = IF r.first = "cdf" THEN v ELSE r.sf,
              !.sums = 2,
              !.from_one = sum_subtracts_from_one(x, half_b, r.first # "cdf"),
              !.val = v]

\* "min_cdf_sf = min(cdf, sf)" with the second summation's v; min returns
\* its first argument, cdf, when the two are equal
tails_return_min_of_both(r, x, v) ==
    LET cdf == IF r.first = "cdf" THEN r.cdf ELSE v
        sf == IF r.first = "cdf" THEN v ELSE r.sf
    IN [r EXCEPT !.pc = "done", !.origin = "min_of_both",
                 !.tail = IF decimal_le(cdf, sf) THEN "cdf" ELSE "sf",
                 !.cdf = cdf, !.sf = sf, !.sums = 2,
                 !.from_one = sum_subtracts_from_one(x, TRUE, decimal_le(cdf, sf)),
                 !.val = builtin_min(cdf, sf)]

\* the rest of a cdf or sf evaluator after the first summation, v being
\* what a second summation returns
tails_finish_cdf_or_sf(r, want, x, half_b, v) ==
    IF r.first = want
    THEN tails_return_first(r, x, half_b)
    ELSE IF first_tail_below_half(IF r.first = "cdf" THEN r.cdf ELSE r.sf)
    THEN tails_return_one_minus_first(r)
    ELSE tails_return_second(r, x, half_b, v)

\* the rest of a min_cdf_sf evaluator after the first summation
tails_finish_min(r, x, v) ==
    IF first_tail_below_half(IF r.first = "cdf" THEN r.cdf ELSE r.sf)
    THEN tails_return_first(r, x, TRUE)
    ELSE tails_return_min_of_both(r, x, v)

EvaluatorEnter ==
    /\ call.op = "none"
    /\ \E int_alg \in 0..2, want \in {"cdf", "sf", "min"}, half_b \in BOOLEAN :
        /\ want = "min" => half_b
        /\ call' = [alg |-> int_alg, want |-> want] @@
                   [NoCall EXCEPT !.op = "tails", !.half = half_b, !.prec = prec]
        /\ \E v \in tail_values(int_alg, q, half_b, cdf_summed_first(int_alg, q)) :
               ret' = tails_after_first(q, half_b, cdf_summed_first(int_alg, q), v)
    /\ UNCHANGED <<q, prec, used, taylor>>

EvaluatorFinish ==
    /\ call.op = "tails"
    /\ ret.pc = "first"
    /\ \E v \in tail_values(call.alg, q, call.half, ret.first # "cdf") :
           ret' = IF call.want = "min"
                  THEN tails_finish_min(ret, q, v)
                  ELSE tails_finish_cdf_or_sf(ret, call.want, q, call.half, v)
    /\ UNCHANGED <<q, call, prec, used, taylor>>

NextTails ==
    \/ EvaluatorEnter
    \/ EvaluatorFinish

SpecTails == InitFraction /\ [][NextTails]_vars

(***************************************************************************)
(* The decimal contexts of the exact cdf, sf and min(cdf, sf) evaluators,  *)
(* phase by phase.  The contexts are a stack of precisions, the current    *)
(* one last, the caller's first.  A trace t holds the stack and ops, the   *)
(* set of pairs <<operation, precision of the current context>> of the     *)
(* Decimal arithmetic made so far.                                         *)
(***************************************************************************)
\* "with localcontext() as ctx : ctx.prec = p"
local_enter(t, p) == [t EXCEPT !.stack = Append(@, p)]

\* the end of a "with localcontext()" block
local_leave(t) == [t EXCEPT !.stack = SubSeq(@, 1, Len(@) - 1)]

\* "getcontext().prec = p"
set_current(t, p) == [t EXCEPT !.stack = [@ EXCEPT ![Len(@)] = p]]

\* Decimal arithmetic in the current context
arith(t, label) == [t EXCEPT !.ops = @ \cup {<<label, t.stack[Len(t.stack)]>>}]

\* _compute_fraction_for_hypergeom_pmf called with the precisions comp, rep
compute_fraction_trace(t, comp, rep) ==
    arith(set_current(local_leave(arith(local_enter(t, comp), "fraction_loop")), rep),
          "fraction_round")

\* the degenerate branch: exact_hypergeom_pmf(...) / 2, then "+=" or "-="
\* in half-boundary mode, then the rounding of the return value
sum_degenerate_trace(t, half_b, comp, rep) ==
    LET a == arith(compute_fraction_trace(t, comp, rep), "degenerate_halve")
        b == IF half_b THEN arith(a, "degenerate_add_or_subtract") ELSE a
    IN arith(set_current(b, rep), "sum_round")

\* the local context of a walk has Decimal arithmetic: the first term is
\* halved ("pmf /= 2" before the loop), or an iteration of the loop updates
\* the term; "cdf = pmf" and "sf = pmf" are assignments
cdf_walk_has_arithmetic(i_first, k, half_b) ==
    (half_b /\ i_first + 1 >= k + 1) \/ i_first + 1 <= k
sf_walk_has_arithmetic(i_last, k, half_b) ==
    (half_b /\ i_last - 1 <= k - 1) \/ \E i \in k..(i_last - 1) : i > k \/ half_b
sum_walk_has_arithmetic(k, M, n, N, half_b, bool_cdf) ==
    IF bool_cdf
    THEN cdf_walk_has_arithmetic(max(0, n + N - M), k, half_b)
    ELSE sf_walk_has_arithmetic(min(n, N), k, half_b)

\* a walk: the first term by _compute_fraction_for_hypergeom_pmf with comp
\* as its reporting precision, the halving and the loop in a local context,
\* then the rounding of the return value; the SF branch that returns 0 has
\* only the rounding
sum_walk_trace(t, bool_has_terms, bool_has_arithmetic, comp, rep) ==
    LET a == IF bool_has_terms
             THEN LET b == local_enter(compute_fraction_trace(t, comp, comp), comp)
                  IN  local_leave(IF bool_has_arithmetic THEN arith(b, "walk_loop")
                                  ELSE b)
             ELSE t
    IN arith(set_current(a, rep), "sum_round")

\* _sum_hypergeom_pmfs for the query x
sum_trace(t, x, half_b, bool_cdf, comp, rep) ==
    IF sum_is_degenerate(x[1], x[2], x[3], x[4], half_b)
    THEN sum_degenerate_trace(t, half_b, comp, rep)
    ELSE sum_walk_trace(t, sum_walk_has_terms(x[1], x[3], half_b, bool_cdf),
                        sum_walk_has_arithmetic(x[1], x[2], x[3], x[4], half_b, bool_cdf),
                        comp, rep)

\* the two precisions of a call: the defaults, and a small pair
PrecisionPairs ==
    {<<INT_DECIMAL_COMPUTATIONAL_PRECISION, INT_DECIMAL_REPORTING_PRECISION>>, <<50, 3>>}

\* the branch of the exact evaluator of want for the query x
exact_path(want, x, half_b) ==
    IF want = "cdf" THEN exact_hypergeom_cdf_run(x[1], x[2], x[3], x[4], half_b).path
    ELSE IF want = "sf" THEN exact_hypergeom_sf_run(x[1], x[2], x[3], x[4], half_b).path
    ELSE exact_hypergeom_min_cdf_sf_run(x[1], x[2], x[3], x[4]).path

\* the evaluator opens its local context at the computational precision
PrecisionEnter ==
    /\ call.op = "none"
    /\ \E want \in {"cdf", "sf", "min"}, half_b \in BOOLEAN, pr \in PrecisionPairs :
        /\ want = "min" => half_b
        /\ call' = [want |-> want, comp |-> pr[1], rep |-> pr[2],
                    path |-> exact_path(want, q, half_b)] @@
                   [NoCall EXCEPT !.op = "precision", !.half = half_b, !.prec = prec]
        /\ ret' = [kind |-> "ctx", pc |-> "first_sum",
                   cdf_next |-> cdf_side_is_cheaper(q[1], q[2], q[3], q[4]),
                   stack |-> <<prec, pr[1]>>, ops |-> {}]
    /\ UNCHANGED <<q, prec, used, taylor>>

\* one call of _sum_hypergeom_pmfs
PrecisionSum ==
    /\ call.op = "precision"
    /\ ret.pc \in {"first_sum", "second_sum"}
    /\ ret' = [sum_trace(ret, q, call.half, ret.cdf_next, call.comp, call.rep)
                  EXCEPT !.pc = IF ret.pc = "first_sum" THEN "select" ELSE "leave",
                         !.cdf_next = ~ret.cdf_next]
    /\ UNCHANGED <<q, call, prec, used, taylor>>

\* the comparison with half, and "one - x" on the branches that have it
PrecisionSelect ==
    /\ call.op = "precision"
    /\ ret.pc = "select"
    /\ ret' = IF call.path \in {"one_minus_sf", "one_minus_cdf"}
              THEN [arith(ret, "one_minus") EXCEPT !.pc = "leave"]
              ELSE IF call.path \in {"sf_then_cdf", "cdf_then_sf"}
              THEN [ret EXCEPT !.pc = "second_sum"]
              ELSE [ret EXCEPT !.pc = "leave"]
    /\ UNCHANGED <<q, call, prec, used, taylor>>

\* the end of the first local context, the final rounding inside a second
\* one at the reporting precision, and the return to the caller's context
PrecisionLeave ==
    /\ call.op = "precision"
    /\ ret.pc = "leave"
    /\ ret' = [local_leave(arith(local_enter(local_leave(ret), call.rep), "final_round"))
                  EXCEPT !.pc = "done"]
    /\ prec' = ret'.stack[1]
    /\ UNCHANGED <<q, call, used, taylor>>

NextPrecision ==
    \/ PrecisionEnter
    \/ PrecisionSum
    \/ PrecisionSelect
    \/ PrecisionLeave

SpecPrecision == InitFraction /\ [][NextPrecision]_vars

(***************************************************************************)
(* Reference tails of the hypergeometric distribution.                     *)
(***************************************************************************)
i_first_of(x) == max(0, x[3] + x[4] - x[2])
i_last_of(x) == min(x[3], x[4])
RefPmfQ(x) == RefPmf(x[1], x[2], x[3], x[4])
\* P(X <= k)
RefCdfQ(x) == RefSum(i_first_of(x), x[1], x[2], x[3], x[4])
\* P(X >= k)
RefSfInclQ(x) == RefSum(x[1], i_last_of(x), x[2], x[3], x[4])
\* P(X > k)
RefSfExclQ(x) == RefSum(x[1] + 1, i_last_of(x), x[2], x[3], x[4])

\* the half-boundary reference tails: PMF(k) split evenly between the tails
RefCdfHalfQ(x) == RSub(RefCdfQ(x), RDivInt(RefPmfQ(x), 2))
RefSfHalfQ(x) == RAdd(RefSfExclQ(x), RDivInt(RefPmfQ(x), 2))

\* the reference value as a Decimal: rounded once to the reporting precision
reported(value) == decimal_of_value(value, INT_DECIMAL_REPORTING_PRECISION)

\* |x - y| for two Decimals, not rounded
decimal_distance(x, y) == [decimal_sub(x, y, 64) EXCEPT !.neg = FALSE]

\* one unit of the last decimal place of the reporting precision: 10 ** -16
ReportingUnit == Dec(<<1>>, 0 - INT_DECIMAL_REPORTING_PRECISION)

\* the Decimal x is the reference value to the reporting precision: it is
\* within one unit of the 16th decimal place of it (the reference value is
\* taken to 32 digits)
equals_to_reporting_precision(x, value) ==
    decimal_le(decimal_distance(x, decimal_of_value(value, 32)), ReportingUnit)

\* the Decimals x and y sum to one to the reporting precision
sum_to_one(x, y) ==
    decimal_le(decimal_distance(decimal_add(x, y, 64), DecOne), ReportingUnit)

\* the tails of the query from the exact evaluators
ExactCdfQ(x, half_b) == exact_hypergeom_cdf(x[1], x[2], x[3], x[4], half_b)
ExactSfQ(x, half_b) == exact_hypergeom_sf(x[1], x[2], x[3], x[4], half_b)

\* sixteen digits: 0.dddddddddddddddl
Sixteen(d, l) == Dec([i \in 1..16 |-> IF i < 16 THEN d ELSE l], -16)

\* the valid sample counts above k for the (M, n, N) of the query
LargerK(x) == {kk \in (x[1] + 1)..MaxM : ValidQuery(kk, x[2], x[3], x[4])}

\* the degenerate queries of the claim on tail summation without half boundary
PlainDegenerate(x) ==
    x[2] = x[3] \/ x[2] = x[4] \/ x[4] = x[1] \/ x[3] = 0 \/ x[4] = 0

FacadeOps == {"custom_pmf", "custom_cdf", "custom_sf", "custom_min"}

(***************************************************************************)
(* C1.  For every valid query, exact_hypergeom_pmf(k, M, n, N) equals      *)
(* C(N,k) * C(M-N,n-k) / C(M,n): the returned Decimal is that rational     *)
(* rounded once, to the reporting precision.                               *)
(***************************************************************************)
C1_ExactPmfIsBinomialRatio ==
    call.op = "exact_pmf" => ret.val = reported(RefPmfQ(q))

\* PMF = 2/3 is returned as 0.6666666666666667
C1_Witness ==
    /\ call.op = "exact_pmf"
    /\ q = <<0, 3, 1, 1>>
    /\ RefPmfQ(q) = <<2, 3>>
    /\ ret.val = Sixteen(6, 7)

(***************************************************************************)
(* C2.  For every valid query and every configuration of positive          *)
(* iteration budgets, each of the four facades returns a probability       *)
(* value: no selector outcome makes a facade return None.                  *)
(***************************************************************************)
C2_FacadesReturnValue ==
    call.op \in FacadeOps => ret.kind = "value"

(***************************************************************************)
(* C3.  For every valid query, exact_hypergeom_cdf with half_boundary =    *)
(* False equals the sum of PMF(i) for i from max(0, n+N-M) to k,           *)
(* whichever summation direction the cost comparison selects: the          *)
(* returned Decimal is the sum to the reporting precision, and it is the   *)
(* sum rounded once when it comes from a summation of the cdf.             *)
(***************************************************************************)
C3_ExactCdfIsSumOfPmfs ==
    (call.op = "exact_cdf" /\ ~call.half) =>
        /\ equals_to_reporting_precision(ret.val, RefCdfQ(q))
        /\ ret.path # "one_minus_sf" => ret.val = reported(RefCdfQ(q))

C3_Witness ==
    /\ call.op = "exact_cdf"
    /\ ~call.half
    /\ q = <<3, 6, 4, 4>>
    /\ ret.path = "one_minus_sf"
    /\ RefCdfQ(q) = <<14, 15>>
    /\ ret.val = Dec(<<9>> \o [i \in 1..15 |-> 3], -16)

(***************************************************************************)
(* C4.  For every valid query, exact_hypergeom_sf with half_boundary =     *)
(* False equals the sum of PMF(i) for i from k to min(n, N), the term at   *)
(* index k included (to the reporting precision).  The SF walk of          *)
(* _sum_hypergeom_pmfs skips the index k without the half boundary, so     *)
(* the value returned is the sum from k + 1.                               *)
(***************************************************************************)
C4_ExactSfIncludesBoundaryTerm ==
    (call.op = "exact_sf" /\ ~call.half) =>
        equals_to_reporting_precision(ret.val, RefSfInclQ(q))

(***************************************************************************)
(* C5.  For every valid query with half_boundary = False,                  *)
(* cdf(k) + sf(k) - pmf(k) = 1 for the exact evaluators (to the reporting  *)
(* precision): the boundary term PMF(k) is counted in both tails.  The     *)
(* exact sf leaves the term out, so the sum falls short of 1 by PMF(k).    *)
(***************************************************************************)
C5_CdfPlusSfMinusPmfIsOne ==
    (call.op = "exact_cdf" /\ ~call.half) =>
        decimal_le(decimal_distance(
                       decimal_sub(decimal_add(ret.val, ExactSfQ(q, FALSE), 64),
                                   exact_hypergeom_pmf(q[1], q[2], q[3], q[4]), 64),
                       DecOne),
                   ReportingUnit)

(***************************************************************************)
(* C6.  Original statement: for every valid query the half-boundary        *)
(* tails are complementary: cdf(k, half) + sf(k, half) = 1 exactly, the    *)
(* degenerate cases included.                                              *)
(***************************************************************************)
C6_Original_HalfBoundaryTailsSumToOneExactly ==
    /\ (call.op = "exact_cdf" /\ call.half) =>
          decimal_add(ret.val, ExactSfQ(q, TRUE), 64) = DecOne
    /\ (call.op = "exact_sf" /\ call.half) =>
          decimal_add(ExactCdfQ(q, TRUE), ret.val, 64) = DecOne
    /\ (call.op = "sum" /\ call.half) =>
          decimal_add(ret.val,
                      sum_hypergeom_pmfs(q[1], q[2], q[3], q[4], TRUE, ~call.cdf),
                      64) = DecOne

(***************************************************************************)
(* C6, amended.  For every valid query the half-boundary tails are         *)
(* complementary to the reporting precision: cdf(k, half) + sf(k, half)    *)
(* differs from 1 by at most one unit of the 16th decimal place, the       *)
(* degenerate cases included.                                              *)
(***************************************************************************)
C6_HalfBoundaryTailsSumToOne ==
    /\ (call.op = "exact_cdf" /\ call.half) => sum_to_one(ret.val, ExactSfQ(q, TRUE))
    /\ (call.op = "exact_sf" /\ call.half) => sum_to_one(ExactCdfQ(q, TRUE), ret.val)
    /\ (call.op = "sum" /\ call.half) =>
          sum_to_one(ret.val, sum_hypergeom_pmfs(q[1], q[2], q[3], q[4], TRUE, ~call.cdf))

\* a degenerate case: N = k with PMF(k) = 1/6, whose tails are returned as
\* 0.08333333333333335 and 0.9166666666666666
C6_Witness ==
    /\ call.op = "sum"
    /\ call.half
    /\ ~call.cdf
    /\ q = <<0, 4, 2, 2>>
    /\ ret.branch = "degenerate"
    /\ ret.val = Dec(<<9, 1>> \o [i \in 1..14 |-> 6], -16)
    /\ sum_hypergeom_pmfs(0, 4, 2, 2, TRUE, TRUE) = Dec(<<8>> \o [i \in 1..14 |-> 3] \o <<5>>, -17)

(***************************************************************************)
(* C7.  For every valid query, min_cdf_sf(k) equals                        *)
(* min(cdf(k, half), sf(k, half)), both when the first computed tail is    *)
(* below 1/2 and returned alone and when both tails are computed.          *)
(***************************************************************************)
C7_MinIsMinOfHalfBoundaryTails ==
    /\ call.op = "exact_min" =>
          ret.val = builtin_min(ExactCdfQ(q, TRUE), ExactSfQ(q, TRUE))
    /\ (call.op = "custom_min" /\ ret.alg = 0) =>
          ret.val = builtin_min(ExactCdfQ(q, TRUE), ExactSfQ(q, TRUE))

\* the first tail (sf) is below 1/2 and returned without computing the cdf
C7_Witness ==
    /\ call.op = "exact_min"
    /\ q = <<3, 6, 4, 3>>
    /\ ret.path = "sf_only"
    /\ ret.val = Dec(<<1>>, -1)

(***************************************************************************)
(* C8.  For every valid query and both values of half_boundary, the        *)
(* values returned by pmf, cdf, sf and min_cdf_sf lie in [0, 1].           *)
(***************************************************************************)
C8_ValuesAreProbabilities ==
    (call.op # "none" /\ ret.kind = "value" /\ ret.val # NoVal) =>
        (decimal_le(DecZero, ret.val) /\ decimal_le(ret.val, DecOne))

C8_Witness ==
    /\ call.op = "exact_sf"
    /\ call.half
    /\ q = <<0, 6, 3, 3>>
    /\ ret.val = Dec(<<9, 7, 5>>, -3)

(***************************************************************************)
(* C9.  For fixed (M, n, N) and valid sample counts k < k',                *)
(* cdf(k) <= cdf(k') and sf(k) >= sf(k'), also when the two evaluations    *)
(* take different summation directions or one hits a degenerate shortcut.  *)
(***************************************************************************)
C9_TailsAreMonotoneInK ==
    /\ call.op = "exact_cdf" =>
          \A kk \in LargerK(q) :
              decimal_le(ret.val, exact_hypergeom_cdf(kk, q[2], q[3], q[4], call.half))
    /\ call.op = "exact_sf" =>
          \A kk \in LargerK(q) :
              decimal_le(exact_hypergeom_sf(kk, q[2], q[3], q[4], call.half), ret.val)

\* k = 1 is summed on the cdf side; k' = 3 = n takes the sf side, where the
\* summation is cut short (sf = 0) and the cdf is 1 - sf
C9_Witness ==
    /\ call.op = "exact_cdf"
    /\ ~call.half
    /\ q = <<1, 6, 3, 4>>
    /\ ret.path = "cdf"
    /\ LargerK(q) = {2, 3}
    /\ exact_hypergeom_cdf_run(3, 6, 3, 4, FALSE).path = "one_minus_sf"

(***************************************************************************)
(* C10.  With half_boundary = False, for every valid query with M = n,     *)
(* M = N, N = k, n = 0 or N = 0 the tail summation returns cdf = 1 and     *)
(* sf = 0 and executes no iteration of the summation loop.                 *)
(***************************************************************************)
C10_DegenerateTailsWithoutSummation ==
    (call.op = "sum" /\ ~call.half /\ PlainDegenerate(q)) =>
        /\ ret.val = (IF call.cdf THEN DecOne ELSE DecZero)
        /\ ret.loop_iters = 0

C10_Witness ==
    /\ call.op = "sum"
    /\ ~call.half
    /\ call.cdf
    /\ q = <<2, 6, 4, 2>>
    /\ ret.val = DecOne
    /\ ret.loop_iters = 0

\* the operations that return a PMF and those that return a tail
PmfOps == {"exact_pmf", "custom_pmf"}
TailOps == {"exact_cdf", "exact_sf", "exact_min", "custom_cdf", "custom_sf", "custom_min"}

(***************************************************************************)
(* C11.  For every query that violates the validity invariant, no          *)
(* operation raises, pmf returns 0, and cdf, sf and min_cdf_sf return 0    *)
(* or 1.                                                                   *)
(***************************************************************************)
C11_InvalidQueriesGiveDegenerateValues ==
    (~ValidQuery(q[1], q[2], q[3], q[4]) /\ call.op \in PmfOps \cup TailOps) =>
        /\ ret.kind # "raise"
        /\ (call.op \in PmfOps /\ ret.val # NoVal) => ret.val = DecZero
        /\ (call.op \in TailOps /\ ret.val # NoVal) => ret.val \in {DecZero, DecOne}

\* the mode a facade passes to the selector
FacadeMode(op) ==
    IF op = "custom_cdf" THEN "cdf" ELSE IF op = "custom_sf" THEN "sf" ELSE "min"

\* the cost estimates the selector compares with the three budgets
ExactCostOf(op, x) ==
    IF op = "custom_pmf"
    THEN exact_cost_for_pmf(x[1], x[3], x[4])
    ELSE exact_cost_for_tail(x[1], x[2], x[3], x[4], FacadeMode(op))

LanczosCostOf(op, x) ==
    IF op = "custom_pmf" THEN (13 - 1) * 9 ELSE lanczos_cost_for_tail(x[1], x[3])

SpougeCostOf(op, x) ==
    IF op = "custom_pmf" THEN (20 - 1) * 9 ELSE spouge_cost_for_tail(x[1], x[3])

\* the decision list: the first rung that holds gives the algorithm
DecisionList(exact_cost, lanczos_cost, spouge_cost, bool_normal, cfg) ==
    IF exact_cost <= cfg.exact THEN 0
    ELSE IF lanczos_cost <= cfg.lanczos THEN 1
    ELSE IF spouge_cost <= cfg.spouge THEN 2
    ELSE IF bool_normal THEN 3
    ELSE 4

(***************************************************************************)
(* C12.  choose_hypergeom_algorithm is a total decision list: for every    *)
(* query, valid or not, every mode (pmf, cdf, sf, min) and every budget    *)
(* configuration it returns one of the five algorithms, the one of the     *)
(* first rung that holds of Exact, Lanczos, Spouge (cost within budget),   *)
(* NormalTaylor (the sample-size, balance and tail-distance conditions     *)
(* hold), LibraryReference.  The pmf branch of the selector has no         *)
(* NormalTaylor rung, and the statements that open the last rung of the    *)
(* tail branch raise for M = 0 and for a negative variance.                *)
(***************************************************************************)
C12_SelectorIsTotalDecisionList ==
    call.op \in FacadeOps =>
        /\ ret.alg \in 0..4
        /\ ret.alg = DecisionList(ExactCostOf(call.op, q), LanczosCostOf(call.op, q),
                                  SpougeCostOf(call.op, q),
                                  /\ ~normal_setup_raises(q[2], q[3], q[4])
                                  /\ normal_conditions_hold(q[1], q[2], q[3], q[4],
                                                            call.cfg),
                                  call.cfg)

\* the selector's choice for the facade op, the query x and the budgets cfg
SelectorChoice(op, x, cfg) ==
    choose_hypergeom_algorithm(x[1], x[2], x[3], x[4], cfg,
                               op = "custom_pmf", FacadeMode(op))

\* the exact budgets that are at least b
BudgetsFrom(b) == {b2 \in ExactBudgets : b <= b2}

(***************************************************************************)
(* C13.  For every valid query, mode and pair of exact-iteration budgets   *)
(* b1 <= b2, all other arguments equal, the algorithm chosen with b2 is at *)
(* least as exact as the one chosen with b1 (b1 is the budget of the call, *)
(* the order is Exact < Lanczos < Spouge < NormalTaylor < Library).        *)
(***************************************************************************)
C13_SelectorMonotoneInExactBudget ==
    call.op \in FacadeOps =>
        \A b2 \in BudgetsFrom(call.cfg.exact) :
            SelectorChoice(call.op, q, [call.cfg EXCEPT !.exact = b2]) <= ret.alg

\* a call whose choice is not Exact and becomes Exact with a larger budget
C13_Witness ==
    /\ call.op \in FacadeOps
    /\ ret.alg > 0
    /\ \E b2 \in BudgetsFrom(call.cfg.exact) :
          /\ b2 > call.cfg.exact
          /\ SelectorChoice(call.op, q, [call.cfg EXCEPT !.exact = b2]) = 0

(***************************************************************************)
(* C14.  After a facade operation returns, the precision of the caller's   *)
(* decimal context equals its value before the call.                       *)
(***************************************************************************)
C14_AmbientPrecisionRestored ==
    call.op \in FacadeOps => prec = call.prec

(***************************************************************************)
(* C15.  The result of an operation does not depend on the precision of    *)
(* the caller's decimal context on entry: the value is computed from the   *)
(* query and the configuration alone, every precision at which the         *)
(* arithmetic of the call ran is one that the call names (never the        *)
(* caller's), and it is the one the same call uses when it is entered at   *)
(* any other ambient precision.  This holds for every evaluator the        *)
(* facades dispatch to: exact, Lanczos, Spouge, normal Taylor and scipy.   *)
(***************************************************************************)
C15_ResultIndependentOfAmbientPrecision ==
    call.op # "none" =>
        /\ used \subseteq CallPrecisions(call)
        /\ \A p2 \in AmbientPrecisions : CallCtx(call, ret, p2).used = used

\* a facade entered at the default precision of the decimal module
\* dispatched to the normal Taylor evaluator, whose arithmetic ran at the
\* computational precision, at two digits more (approx_pi) and at the
\* reporting precision
C15_Witness ==
    /\ call.op \in {"custom_cdf", "custom_sf", "custom_min"}
    /\ call.prec = 28
    /\ ret.kind = "value"
    /\ ret.alg = 3
    /\ used = {INT_DECIMAL_COMPUTATIONAL_PRECISION,
               INT_DECIMAL_COMPUTATIONAL_PRECISION + 2,
               INT_DECIMAL_REPORTING_PRECISION}

\* a safety cap below the number of iterations of the longest run
TaylorSafetyCap == 4

(***************************************************************************)
(* C16.  The Taylor-series loop is bounded by a safety iteration cap: a    *)
(* run whose terms have not fallen below the tolerance when the cap is     *)
(* reached ends in an explicit error, it does not loop on.                 *)
(***************************************************************************)
C16_TaylorLoopEndsAtSafetyCap ==
    (taylor.pc # "idle" /\ taylor.iters > TaylorSafetyCap) => taylor.pc = "error"

\* the exponent of the first digit of a Decimal that is not 0
AdjustedExponent(number) == number.exp + Len(number.digits) - 1

\* the 17 digits kept by the format are nines and the rest rounds them up
RoundsToNextPowerOfTen(number) ==
    /\ Len(number.digits) > 17
    /\ \A i \in 1..17 : number.digits[i] = 9
    /\ number.digits[18] >= 5

(***************************************************************************)
(* C17.  With the split flag the exponent is -(2 * MAX_INT + 1) exactly    *)
(* when the value is 0 or NaN; for every other value the significand is    *)
(* not 0, has one non-zero digit before the point, and the exponent is the *)
(* base-10 exponent of the value in scientific notation (one more when     *)
(* the format rounds the value up to the next power of ten).               *)
(***************************************************************************)
C17_SentinelExactlyForZeroAndNaN ==
    call.op = "split" =>
        /\ (ret.exponent = int_exponent_of_zero_or_nan)
               <=> (ret.number.nan \/ AllZero(ret.number.digits))
        /\ ~(ret.number.nan \/ AllZero(ret.number.digits)) =>
               /\ ret.coefficient[1] \in 1..9
               /\ ret.exponent = py_int(AdjustedExponent(ret.number)
                                        + (IF RoundsToNextPowerOfTen(ret.number)
                                           THEN 1 ELSE 0))

\* a value that is exactly 0 was split
C17_Witness ==
    /\ call.op = "split"
    /\ ~ret.number.nan
    /\ AllZero(ret.number.digits)
    /\ ret.exponent = int_exponent_of_zero_or_nan
    /\ ret.exponent.digits = <<1, 8, 4, 4, 6, 7, 4, 4, 0, 7, 3, 7, 0, 9, 5, 5, 1, 6, 1, 5>>

\* float(str_coefficient), to the 17 significant digits a float holds:
\* its digits and the exponent of the first one (1 when it is 10.0)
FloatOf(str_coefficient) ==
    IF AllZero(str_coefficient)
    THEN [str_coefficient |-> Zeros(17), str_exponent |-> 0]
    ELSE format_E(Dec(str_coefficient, 1 - Len(str_coefficient)), 16)

\* the pair split_float gives when the value is formatted with
\* int_precision digits
SplitPairWith(number, int_precision) ==
    [coefficient |-> FloatOf(split_float(number, int_precision).coefficient),
     exponent |-> split_float(number, int_precision).exponent]

(***************************************************************************)
(* C18.  With the split flag the significand and the exponent are those of *)
(* the value formatted with the call's reporting precision digits, for     *)
(* every reporting precision passed to the operation.                      *)
(***************************************************************************)
C18_SplitUsesCallReportingPrecision ==
    (call.op = "split" /\ ~ret.nan) =>
        [coefficient |-> FloatOf(ret.coefficient), exponent |-> ret.exponent]
            = SplitPairWith(ret.number, call.rep)

(***************************************************************************)
(* C19.  compute_outlier_score_for_choice returns a score in [0, 1] for    *)
(* every (k, M, n, N): a query that violates the validity invariant scores *)
(* 0 and no evaluator of the engine is called; a valid query scores what   *)
(* the engine returns, which for the exact algorithm is the minimum of the *)
(* half-boundary cdf and the half-boundary sf.                             *)
(***************************************************************************)
C19_ScoreZeroForInvalidElseEngineMin ==
    call.op = "outlier_score" =>
        /\ ~ValidQuery(q[1], q[2], q[3], q[4]) =>
               /\ ret.engine = "none"
               /\ ret.bm_engine = "none"
               /\ ret.val = DecZero
        /\ ValidQuery(q[1], q[2], q[3], q[4]) =>
               /\ ret.kind = "value"
               /\ ret.engine = (IF call.decimal THEN "custom_hypergeom_min_cdf_sf"
                                                ELSE "scipy_hypergeom_min_cdf_sf")
               /\ (call.decimal /\ ret.alg = 0) =>
                      /\ ret.val = builtin_min(ExactCdfQ(q, TRUE), ExactSfQ(q, TRUE))
                      /\ equals_to_reporting_precision(
                             ret.val, RMin(RefCdfHalfQ(q), RefSfHalfQ(q)))
        /\ ret.val # NoVal => (decimal_le(DecZero, ret.val) /\ decimal_le(ret.val, DecOne))

\* a query with k > N scored 0 without a call of the engine
C19_Witness ==
    /\ call.op = "outlier_score"
    /\ call.decimal
    /\ q = <<2, 3, 2, 1>>
    /\ ret.engine = "none"
    /\ ret.val = DecZero

\* the evaluator of the algorithm alg for the facade op
EvaluatorOf(alg, op) ==
    <<"exact_hypergeom", "approx_lanczos_hypergeom", "approx_spouge_hypergeom",
      "normal_taylor_hypergeom", "scipy_hypergeom">>[alg + 1]
    \o (IF op = "custom_pmf" THEN "_pmf"
        ELSE IF op = "custom_cdf" THEN "_cdf"
        ELSE IF op = "custom_sf" THEN "_sf"
        ELSE "_min_cdf_sf")

\* the value of the exact evaluator of the facade op for the query x
ExactEvaluatorValue(op, x, half_b) ==
    IF op = "custom_pmf" THEN exact_hypergeom_pmf(x[1], x[2], x[3], x[4])
    ELSE IF op = "custom_cdf" THEN exact_hypergeom_cdf(x[1], x[2], x[3], x[4], half_b)
    ELSE IF op = "custom_sf" THEN exact_hypergeom_sf(x[1], x[2], x[3], x[4], half_b)
    ELSE exact_hypergeom_min_cdf_sf(x[1], x[2], x[3], x[4])

(***************************************************************************)
(* C20.  For each facade and each algorithm the selector returns for it,   *)
(* the facade's result is the result of that algorithm's evaluator for     *)
(* that operation: exact_hypergeom_*, approx_lanczos_hypergeom_*,          *)
(* approx_spouge_hypergeom_*, normal_taylor_hypergeom_* or                 *)
(* scipy_hypergeom_*.                                                      *)
(***************************************************************************)
C20_FacadeReturnsChosenEvaluatorResult ==
    call.op \in FacadeOps =>
        /\ ret.evaluator = EvaluatorOf(SelectorChoice(call.op, q, call.cfg), call.op)
        /\ SelectorChoice(call.op, q, call.cfg) = 0 =>
               ret.val = ExactEvaluatorValue(call.op, q, call.half)

\* how many ranges of the list hold the integer v
Count(lst, v) == Cardinality({i \in 1..Len(lst) : lst[i][1] <= v /\ v <= lst[i][2]})

\* the product of the integers of the numerator ranges over the product of
\* the integers of the denominator ranges, integer by integer from v down
RECURSIVE PowerOf(_, _)
PowerOf(v, e) ==
    IF e = 0 THEN One
    ELSE IF e > 0 THEN RMulInt(PowerOf(v, e - 1), v)
    ELSE RDivInt(PowerOf(v, e + 1), v)

RECURSIVE FractionValueUpTo(_, _)
FractionValueUpTo(f, v) ==
    IF v < 2 THEN One
    ELSE RMul(PowerOf(v, Count(f.num, v) - Count(f.den, v)),
              FractionValueUpTo(f, v - 1))

FractionValue(f) == FractionValueUpTo(f, MaxM + 1)

RangesAreProper(lst) ==
    \A i \in 1..Len(lst) : 1 <= lst[i][1] /\ lst[i][1] <= lst[i][2]

(***************************************************************************)
(* C21.  _simplify_fraction_for_hypergeom_pmf keeps the value of the       *)
(* fraction: for the range lists of any valid query the product of the     *)
(* numerator ranges over the product of the denominator ranges is the same *)
(* after every stage as before the first, every range has                  *)
(* 1 <= lower <= upper, and every search of every stage finds a range that *)
(* starts at 1 in the numerator and in the denominator.                    *)
(***************************************************************************)
C21_SimplifyPreservesFraction ==
    (call.op = "fraction" /\ ret.kind = "simplify") =>
        /\ FractionValue(ret.f) = FractionValue(ret.f0)
        /\ FractionValue(ret.f0) = RefPmf(call.i, q[2], q[3], q[4])
        /\ RangesAreProper(ret.f.num)
        /\ RangesAreProper(ret.f.den)
        /\ ret.found

\* after the last stage of PMF(1) of (1, 6, 3, 3) a numerator range starts
\* above 1
C21_Witness ==
    /\ call.op = "fraction"
    /\ ret.kind = "simplify"
    /\ ret.stage = 4
    /\ q = <<1, 6, 3, 3>>
    /\ call.i = 1
    /\ \E j \in 1..Len(ret.f.den) : ret.f.den[j][1] > 1
    /\ FractionValue(ret.f) = <<9, 20>>

\* the sum of the counts of the integers up to v
RECURSIVE CountsUpTo(_, _)
CountsUpTo(counts, v) == IF v < 1 THEN 0 ELSE counts[v] + CountsUpTo(counts, v - 1)

\* the sides whose last range the cursor has left
ExhaustedSides(s, f) ==
    (IF s.ni > Len(f.num) THEN 1 ELSE 0) + (IF s.di > Len(f.den) THEN 1 ELSE 0)

(***************************************************************************)
(* C22.  _compute_fraction_for_hypergeom_pmf terminates for all range      *)
(* lists with 1 <= lower <= upper, those of a query and any other,         *)
(* multiplies by every integer of every numerator range exactly once and   *)
(* divides by every integer of every denominator range exactly once, in    *)
(* the interleaved loop and the drain of the side that is left over        *)
(* together, so that its result is the product of the numerator ranges     *)
(* over the product of the denominator ranges.  Every iteration consumes   *)
(* one integer or leaves the last range of a side, which bounds the number *)
(* of iterations.  The value returned is that quotient rounded once, to    *)
(* the reporting precision.                                                *)
(***************************************************************************)
C22_ComputeConsumesEveryIntegerOnce ==
    (call.op \in FractionOps /\ ret.kind \in {"compute", "returned"}) =>
        /\ \A v \in RangeValues :
               /\ ret.mult[v] <= Count(ret.f.num, v)
               /\ ret.div[v] <= Count(ret.f.den, v)
        /\ ret.s.iters = CountsUpTo(ret.mult, MaxM + 1) - 1
                         + CountsUpTo(ret.div, MaxM + 1) - 1
                         + ExhaustedSides(ret.s, ret.f)
        /\ ret.phase = "drain_num" => ret.s.di > Len(ret.f.den)
        /\ ret.phase = "drain_den" => ret.s.ni > Len(ret.f.num)
        /\ ret.phase = "done" =>
               /\ \A v \in RangeValues :
                      /\ ret.mult[v] = Count(ret.f.num, v)
                      /\ ret.div[v] = Count(ret.f.den, v)
               /\ ret.s.pmf = FractionValue(ret.f)
               /\ call.op = "fraction" => ret.s.pmf = RefPmf(call.i, q[2], q[3], q[4])
        /\ ret.kind = "returned" => ret.val = reported(FractionValue(ret.f))

\* the numerator was left over and drained: the ranges 2..3 and 3..3 over
\* the range 1..1 give 2 * 3 * 3 / 1 = 18, the last iterations multiplying
\* after the denominator was exhausted
C22_Witness ==
    /\ call.op = "compute_fraction"
    /\ ret.kind = "returned"
    /\ ret.f = [num |-> <<<<2, 3>>, <<3, 3>>>>, den |-> <<<<1, 1>>>>]
    /\ ret.last = "multiply"
    /\ ret.s.pmf = <<18, 1>>
    /\ ret.val = Dec(<<1, 8>>, 0)

\* the largest integer of the ranges of a list
LargestElement(lst) ==
    CHOOSE m \in {lst[i][2] : i \in 1..Len(lst)} :
        \A i \in 1..Len(lst) : lst[i][2] <= m

\* an iteration of the interleaved loop has run and both lists are still
\* unexhausted
AfterInterleavedStep ==
    /\ call.op \in FractionOps
    /\ ret.kind = "compute"
    /\ ret.last # "init"
    /\ ret.phase = "interleave"

(***************************************************************************)
(* C23 as stated.  While both range lists are unexhausted, after every     *)
(* step the accumulator is at most the largest numerator element and       *)
(* strictly greater than 1 / (largest denominator element), and is not 0.  *)
(***************************************************************************)
C23_Original_AccumulatorStrictlyAboveReciprocal ==
    AfterInterleavedStep =>
        /\ RLe(ret.s.pmf, <<LargestElement(ret.f.num), 1>>)
        /\ RLt(<<1, LargestElement(ret.f.den)>>, ret.s.pmf)
        /\ ret.s.pmf # Zero

(***************************************************************************)
(* C23.  While both range lists are unexhausted, after every step the      *)
(* accumulator is at most the largest numerator element and at least       *)
(* 1 / (largest denominator element), strictly greater after a step that   *)
(* divided, and is not 0.                                                  *)
(***************************************************************************)
C23_AccumulatorStaysAroundOne ==
    AfterInterleavedStep =>
        /\ RLe(ret.s.pmf, <<LargestElement(ret.f.num), 1>>)
        /\ RLe(<<1, LargestElement(ret.f.den)>>, ret.s.pmf)
        /\ ret.last = "divide" => RLt(<<1, LargestElement(ret.f.den)>>, ret.s.pmf)
        /\ RLt(Zero, ret.s.pmf)

\* a step divided the accumulator to below 1 while both lists of PMF(1) of
\* (1, 6, 3, 3) were unexhausted
C23_Witness ==
    /\ AfterInterleavedStep
    /\ q = <<1, 6, 3, 3>>
    /\ call.i = 1
    /\ ret.last = "divide"
    /\ RLt(ret.s.pmf, One)
    /\ LargestElement(ret.f.den) > 1

\* a term of a walk of the exact summation is at hand
InExactWalk ==
    /\ call.op = "sum_steps"
    /\ ~call.approx
    /\ ret.branch \in {"cdf_walk", "sf_walk"}

(***************************************************************************)
(* C24.  Loop invariant of the incremental summation in both directions:   *)
(* for every valid non-degenerate query the running term, before the loop  *)
(* and after every update, is the exact PMF(i) = C(N,i) C(M-N,n-i) /       *)
(* C(M,n) of its index i, halved when i = k in half-boundary mode; the     *)
(* walk starts at max(0, n+N-M) for the CDF and at min(n, N) for the SF,   *)
(* and no update divides by 0.                                             *)
(***************************************************************************)
C24_RunningTermIsExactPmf ==
    InExactWalk =>
        /\ ret.start = (IF call.cdf THEN max(0, q[3] + q[4] - q[2]) ELSE min(q[3], q[4]))
        /\ ret.pmf = halve_if(RefPmf(ret.i, q[2], q[3], q[4]), call.half /\ ret.i = q[1])
        /\ ret.i = ret.start + (IF call.cdf THEN ret.updates ELSE 0 - ret.updates)
        /\ ~ret.zero_div

\* the SF walk of (1, 6, 3, 3) in half-boundary mode has reached k: the
\* running term is PMF(1) / 2 = 9/40
C24_Witness ==
    /\ InExactWalk
    /\ ~call.cdf
    /\ call.half
    /\ q = <<1, 6, 3, 3>>
    /\ ret.i = 1
    /\ ret.updates = 2
    /\ ret.pmf = <<9, 40>>

\* the summation returned in half-boundary mode, without approximation
HalfBoundarySumReturned ==
    /\ call.op = "sum_steps"
    /\ ~call.approx
    /\ call.half
    /\ ret.pc = "done"

\* (sum of PMF(i) for i < k) + PMF(k)/2, or the same for i > k
HalfBoundaryTail(x, bool_cdf) ==
    IF bool_cdf
    THEN RAdd(RefSum(i_first_of(x), x[1] - 1, x[2], x[3], x[4]), RDivInt(RefPmfQ(x), 2))
    ELSE RAdd(RefSum(x[1] + 1, i_last_of(x), x[2], x[3], x[4]), RDivInt(RefPmfQ(x), 2))

(***************************************************************************)
(* C25.  In half-boundary mode, for every valid query, the tail summation  *)
(* returns cdf_half(k) = (sum of PMF(i) for i < k) + PMF(k)/2 and          *)
(* sf_half(k) = (sum of PMF(i) for i > k) + PMF(k)/2, also when k is the   *)
(* lowest or the highest index of the support: the returned Decimal is     *)
(* that sum to the reporting precision, and it is the sum rounded once     *)
(* when it comes from a walk.                                              *)
(***************************************************************************)
C25_HalfBoundarySplitsPmfEvenly ==
    HalfBoundarySumReturned =>
        /\ equals_to_reporting_precision(ret.val, HalfBoundaryTail(q, call.cdf))
        /\ ret.branch # "degenerate" => ret.val = reported(HalfBoundaryTail(q, call.cdf))
        /\ ret.val = sum_hypergeom_pmfs(q[1], q[2], q[3], q[4], TRUE, call.cdf)

\* k = 0 is the lowest index of the support of (0, 3, 1, 1): the CDF walk
\* returns PMF(0)/2 = 1/3 without an iteration
C25_Witness ==
    /\ HalfBoundarySumReturned
    /\ call.cdf
    /\ q = <<0, 3, 1, 1>>
    /\ q[1] = i_first_of(q)
    /\ ret.branch = "cdf_walk"
    /\ ret.updates = 0
    /\ HalfBoundaryTail(q, TRUE) = <<1, 3>>
    /\ ret.val = Sixteen(3, 3)

\* an evaluator of the tails returned
TailEvaluatorReturned == call.op = "tails" /\ ret.pc = "done"

\* the value of the tail summed first
FirstTailValue == IF ret.first = "cdf" THEN ret.cdf ELSE ret.sf

\* the exact evaluator's value in the one-step model
ExactTailValue(want, x, half_b) ==
    IF want = "cdf" THEN exact_hypergeom_cdf(x[1], x[2], x[3], x[4], half_b)
    ELSE IF want = "sf" THEN exact_hypergeom_sf(x[1], x[2], x[3], x[4], half_b)
    ELSE exact_hypergeom_min_cdf_sf(x[1], x[2], x[3], x[4])

\* C26 as stated: no returned tail comes from a subtraction from 1 unless
\* the other tail was computed and found below 1/2, and min_cdf_sf never
\* returns a value formed by a subtraction from 1.
C26_Original_NoSubtractionFromOneUnlessBelowHalf ==
    TailEvaluatorReturned =>
        /\ (call.want # "min" /\ ret.from_one) =>
               (ret.tail # ret.first /\ below_half(FirstTailValue))
        /\ (call.want # "min" /\ call.want # ret.first /\ ~below_half(FirstTailValue)) =>
               ret.origin = "second_sum"
        /\ call.want = "min" => ~ret.from_one

(***************************************************************************)
(* C26.  In the exact, Lanczos and Spouge cdf and sf evaluators the        *)
(* evaluator forms 1 - (other tail) only when the other tail was summed    *)
(* and found below 1/2; when the tail summed first is >= 1/2 and is not    *)
(* the requested one, the requested tail comes from a second summation;    *)
(* the min_cdf_sf evaluators never subtract.  The only other subtraction   *)
(* from 1 is the one of the degenerate branch of the summation in          *)
(* half-boundary mode, 1 - PMF(k)/2, which the exact evaluators return as  *)
(* a value >= 1/2 and the exact min_cdf_sf only as the value 1/2.          *)
(***************************************************************************)
C26_EvaluatorSubtractsOnlyBelowHalf ==
    TailEvaluatorReturned =>
        /\ ret.origin = "one_minus_first" <=>
               (call.want # "min" /\ call.want # ret.first /\ below_half(FirstTailValue))
        /\ (call.want # "min" /\ call.want # ret.first /\ ~below_half(FirstTailValue)) =>
               (ret.origin = "second_sum" /\ ret.sums = 2)
        /\ call.want = "min" => ret.origin \in {"first_sum", "min_of_both"}
        /\ (ret.from_one /\ ret.origin # "one_minus_first") =>
               /\ call.half
               /\ sum_is_degenerate(q[1], q[2], q[3], q[4], call.half)
               /\ call.alg = 0 =>
                      IF call.want = "min" THEN ret.val = DecHalf
                      ELSE decimal_le(DecHalf, ret.val)
        /\ call.alg = 0 => ret.val = ExactTailValue(call.want, q, call.half)

\* the exact sf of (0, 6, 3, 3) without half boundary: the cdf, 1/20, is
\* summed first and the sf is 1 - 1/20
C26_Witness ==
    /\ TailEvaluatorReturned
    /\ call.alg = 0
    /\ call.want = "sf"
    /\ ~call.half
    /\ q = <<0, 6, 3, 3>>
    /\ ret.origin = "one_minus_first"
    /\ ret.cdf = Dec(<<5>>, -2)
    /\ ret.val = Dec(<<9, 5>>, -2)

\* a tail summation with the numerical approximation enabled
InApproxSummation == call.op = "sum_steps" /\ call.approx /\ ret.kind = "sum"

\* the index whose PMF opens the branch taken
BoundaryIndexOf(branch, x) ==
    IF branch = "cdf_walk" THEN i_first_of(x)
    ELSE IF branch = "sf_walk" THEN i_last_of(x)
    ELSE x[1]

(***************************************************************************)
(* C27.  In one tail summation with the numerical approximation enabled    *)
(* the log-Gamma PMF approximator is evaluated at most once, and only for  *)
(* the boundary index (the first index of the walk, or k in the degenerate *)
(* branch); every other term comes from one step of the ratio recurrence.  *)
(***************************************************************************)
C27_ApproximatorOnlyForBoundaryTerm ==
    InApproxSummation =>
        /\ ret.approx_calls <= 1
        /\ ret.approx_at \subseteq {BoundaryIndexOf(ret.branch, q)}
        /\ ret.start = BoundaryIndexOf(ret.branch, q)
        /\ ret.branch \in {"cdf_walk", "sf_walk", "degenerate"} => ret.approx_calls = 1
        /\ ret.branch = "sf_zero" => ret.approx_calls = 0
        /\ ret.updates = Abs(ret.i - ret.start)

\* the approximate cdf of (2, 6, 3, 3): the term of index 0 is the
\* approximator's, the terms of indexes 1 and 2 are the recurrence's
C27_Witness ==
    /\ InApproxSummation
    /\ call.cdf
    /\ q = <<2, 6, 3, 3>>
    /\ ret.pc = "done"
    /\ ret.branch = "cdf_walk"
    /\ ret.approx_at = {0}
    /\ ret.approx_calls = 1
    /\ ret.updates = 2

\* an exact evaluator of a tail is running or has returned
InExactEvaluatorContexts == call.op = "precision" /\ ret.kind = "ctx"

(***************************************************************************)
(* C28.  From the entry into an evaluator until the final rounding of its  *)
(* return value every Decimal operation - the halving of the boundary PMF  *)
(* in the degenerate branch, the subtraction 1 - x, the values passed      *)
(* between the helpers - runs with the current context at the              *)
(* computational precision; the reporting precision is current only for    *)
(* the final rounding.                                                     *)
(***************************************************************************)
C28_IntermediateArithmeticAtComputationalPrecision ==
    InExactEvaluatorContexts =>
        \A o \in ret.ops :
            o[2] = (IF o[1] = "final_round" THEN call.rep ELSE call.comp)

\* what does hold: the loops of the ratio evaluator and of the walks run at
\* the computational precision, the first term of a walk is not rounded to
\* the reporting precision, and the caller's context is as it was
ExactEvaluatorLoopsAtComputationalPrecision ==
    InExactEvaluatorContexts =>
        /\ \A o \in ret.ops :
               /\ o[1] \in {"fraction_loop", "walk_loop"} => o[2] = call.comp
               /\ o[1] \in {"degenerate_halve", "degenerate_add_or_subtract",
                            "sum_round", "one_minus", "final_round"} => o[2] = call.rep
               /\ o[2] \in {call.comp, call.rep}
        /\ ret.stack[1] = call.prec
        /\ ret.pc = "done" => (ret.stack = <<call.prec>> /\ prec = call.prec)

\* the multiply/divide steps made in the loops of the ratio evaluator for
\* PMF(i): all its loop iterations but the two that find a list exhausted
pmf_loop_steps(i, x) == exact_hypergeom_pmf_run(i, x[2], x[3], x[4]).iters - 2

\* the loop iterations of one call of _sum_hypergeom_pmfs: those of the
\* ratio evaluator for the boundary PMF and those of the summation loop
sum_iterations(x, half_b, bool_cdf) ==
    IF sum_is_degenerate(x[1], x[2], x[3], x[4], half_b)
    THEN pmf_loop_steps(x[1], x)
    ELSE IF bool_cdf
    THEN pmf_loop_steps(i_first_of(x), x)
         + sum_cdf_walk(x[1], x[2], x[3], x[4], half_b).loop_iters
    ELSE IF ~half_b /\ x[1] = x[3]
    THEN 0
    ELSE pmf_loop_steps(i_last_of(x), x)
         + sum_sf_walk(x[1], x[2], x[3], x[4], half_b).loop_iters

\* the loop iterations of the exact evaluator on the branch path
exact_path_iterations(path, x, half_b) ==
    IF path \in {"cdf", "one_minus_cdf", "cdf_only"}
    THEN sum_iterations(x, half_b, TRUE)
    ELSE IF path \in {"sf", "one_minus_sf", "sf_only"}
    THEN sum_iterations(x, half_b, FALSE)
    ELSE sum_iterations(x, half_b, TRUE) + sum_iterations(x, half_b, FALSE)

\* a facade of a tail returned the value of its exact evaluator
ExactTailChosen ==
    /\ call.op \in {"custom_cdf", "custom_sf", "custom_min"}
    /\ ret.kind = "value"
    /\ ret.alg = 0

(***************************************************************************)
(* C29.  Whenever the selector returns Exact for a cdf, sf or min_cdf_sf   *)
(* request, the loop iterations the exact path executes - the              *)
(* multiply/divide steps of the ratio evaluator for each boundary PMF and  *)
(* the steps of each tail summation performed - are at most the exact      *)
(* iteration budget int_max_num_iters_for_exact_hypergeom.                 *)
(***************************************************************************)
C29_ExactIterationsWithinBudget ==
    ExactTailChosen =>
        exact_path_iterations(ret.path, q, call.half \/ call.op = "custom_min")
            <= call.cfg.exact

\* what the selector does bound: its own estimate of the requested tail
ExactEstimateWithinBudget ==
    ExactTailChosen => ExactCostOf(call.op, q) <= call.cfg.exact

\* the support of the distribution is the single point k
SinglePointSupport(x) == x[2] = x[3] \/ x[2] = x[4] \/ x[3] = 0 \/ x[4] = 0

(***************************************************************************)
(* C30.  For every valid query the two-sided outlier score returned by     *)
(* exact_hypergeom_min_cdf_sf is at most 1/2, and it is exactly 1/2 when   *)
(* the support of the distribution is the single point k (M = n, M = N,    *)
(* n = 0 or N = 0).                                                        *)
(***************************************************************************)
C30_MinScoreAtMostHalf ==
    call.op = "exact_min" =>
        /\ decimal_le(ret.val, DecHalf)
        /\ decimal_le(DecZero, ret.val)
        /\ SinglePointSupport(q) <=> i_first_of(q) = i_last_of(q)
        /\ SinglePointSupport(q) => ret.val = DecHalf

\* the support of (0, 2, 0, 1) is the point 0: the cdf, 1 - 1/2, is not
\* below 1/2, the sf is summed too and the score is min(1/2, 1/2)
C30_Witness ==
    /\ call.op = "exact_min"
    /\ q = <<0, 2, 0, 1>>
    /\ SinglePointSupport(q)
    /\ ret.path = "cdf_then_sf"
    /\ ret.val = DecHalf
====
